---- MODULE Spec2Model ----
(***************************************************************************)
(* PetCare: recurring-reminder scheduling for vaccines and dewormings      *)
(* (src/src/components/tracking/VaccineTab.tsx, which holds both the       *)
(* VaccineTab and the DewormingTab components) over the reminder store.    *)
(*                                                                         *)
(* Text is modelled as a sequence of one-character strings, a Date object  *)
(* as the number of days since 1970-01-01 of its local midnight (or        *)
(* InvalidDate for the NaN time value), a nullable column as a sequence    *)
(* of length 0 (null) or 1.                                                *)
(***************************************************************************)
EXTENDS Integers, Sequences, FiniteSets, TLC

VARIABLES
    vaccinations,   \* rows of the "vaccinations" table
    dewormings,     \* rows of the "dewormings" table
    reminders,      \* rows of the "reminders" table
    today,          \* the clock: new Date() at local midnight, as a day number
    nextId,         \* next primary key the store hands out
    opCount,        \* number of user actions performed so far
    last,           \* history: what the last user action was and did
    run             \* one call of the recurrence engine: its inputs and result

vars == <<vaccinations, dewormings, reminders, today, nextId, opCount, last, run>>

(***************************************************************************)
(* Bounds of the model.                                                    *)
(***************************************************************************)
\* Largest recurrence interval the engine is called with.
MaxInterval == 11
\* Number of user actions in one behaviour of the store specification.
MaxOps == 2

(***************************************************************************)
(* Text.                                                                   *)
(***************************************************************************)
Digits == <<"0", "1", "2", "3", "4", "5", "6", "7", "8", "9">>

IsDigit(c) == \E i \in 1..10 : Digits[i] = c

DigitVal(c) == (CHOOSE i \in 1..10 : Digits[i] = c) - 1

\* String(n) for an integer n >= 0
RECURSIVE NatToString(_)
NatToString(n) ==
    IF n < 10 THEN <<Digits[n + 1]>>
    ELSE NatToString(n \div 10) \o <<Digits[(n % 10) + 1]>>

\* String(n) of a number
NumberToString(n) == IF n < 0 THEN <<"-">> \o NatToString(0 - n) ELSE NatToString(n)

\* s.padStart(2, '0')
padStart2(s) == IF Len(s) < 2 THEN <<"0">> \o s ELSE s

NaNText == <<"N", "a", "N">>

\* The number NaN
NaN == 0 - 999999

RECURSIVE DigitsValue(_, _)
DigitsValue(s, acc) ==
    IF s = <<>> THEN acc ELSE DigitsValue(Tail(s), acc * 10 + DigitVal(Head(s)))

\* Number(s): the empty string is 0, a run of digits its value, anything else NaN
ToNumber(s) ==
    IF \A i \in 1..Len(s) : IsDigit(s[i]) THEN DigitsValue(s, 0) ELSE NaN

\* parseInt(s): the leading run of digits (an optional minus sign first); NaN
\* when there is none
RECURSIVE LeadingDigits(_)
LeadingDigits(s) ==
    IF s = <<>> \/ ~IsDigit(Head(s)) THEN <<>> ELSE <<Head(s)>> \o LeadingDigits(Tail(s))

parseInt(s) ==
    LET neg == s # <<>> /\ Head(s) = "-"
        body == IF neg THEN Tail(s) ELSE s
        ds == LeadingDigits(body)
    IN  IF ds = <<>> THEN NaN
        ELSE IF neg THEN 0 - DigitsValue(ds, 0) ELSE DigitsValue(ds, 0)

\* s.split(sep): the pieces of s between occurrences of the character sep
RECURSIVE SplitAcc(_, _, _)
SplitAcc(s, sep, cur) ==
    IF s = <<>> THEN <<cur>>
    ELSE IF Head(s) = sep THEN <<cur>> \o SplitAcc(Tail(s), sep, <<>>)
    ELSE SplitAcc(Tail(s), sep, Append(cur, Head(s)))

split(s, sep) == SplitAcc(s, sep, <<>>)

(***************************************************************************)
(* The Date object of the platform.                                        *)
(***************************************************************************)
InvalidDate == 0 - 1000000

IsLeap(y) == (y % 4 = 0 /\ y % 100 # 0) \/ y % 400 = 0

\* Day number of the first day of month m0 (0-based, 0..11) of year y
FirstOfMonth(y, m0) ==
    LET yy == IF m0 < 2 THEN y - 1 ELSE y
        era == yy \div 400
        yoe == yy - era * 400
        mp == IF m0 >= 2 THEN m0 - 2 ELSE m0 + 10
        doy == (153 * mp + 2) \div 5
        doe == yoe * 365 + yoe \div 4 - yoe \div 100 + doy
    IN  era * 146097 + doe - 719468

\* The representable range of a Date: 100,000,000 days either side of the epoch
MaxTimeDays == 10000 * 10000

TimeClip(day) == IF day < 0 - MaxTimeDays \/ day > MaxTimeDays THEN InvalidDate ELSE day

\* MakeDay of the language: months outside 0..11 carry into the year, a day of
\* the month outside the month carries into the neighbouring months
MakeDay(y, m0, d) ==
    LET ym == y + (m0 \div 12)
        mn == m0 % 12
    IN  TimeClip(FirstOfMonth(ym, mn) + d - 1)

\* The civil date <<year, month (1..12), day>> of a day number
CivilFromDays(z0) ==
    LET z == z0 + 719468
        era == z \div 146097
        doe == z - era * 146097
        yoe == (doe - doe \div 1460 + doe \div 36524 - doe \div 146096) \div 365
        doy == doe - (365 * yoe + yoe \div 4 - yoe \div 100)
        mp == (5 * doy + 2) \div 153
        d == doy - (153 * mp + 2) \div 5 + 1
        m == IF mp < 10 THEN mp + 3 ELSE mp - 9
        y == yoe + era * 400 + (IF m <= 2 THEN 1 ELSE 0)
    IN  <<y, m, d>>

getFullYear(date) == CivilFromDays(date)[1]
getMonth(date) == CivilFromDays(date)[2] - 1
getDate(date) == CivilFromDays(date)[3]

\* new Date(year, monthIndex, day); a year of 0..99 means 1900 + year
NewDate(y, m0, d) ==
    IF y = NaN \/ m0 = NaN \/ d = NaN THEN InvalidDate
    ELSE MakeDay(IF y >= 0 /\ y <= 99 THEN 1900 + y ELSE y, m0, d)

setFullYear(date, y) ==
    IF date = InvalidDate THEN InvalidDate ELSE MakeDay(y, getMonth(date), getDate(date))

setMonth(date, m0) ==
    IF date = InvalidDate THEN InvalidDate ELSE MakeDay(getFullYear(date), m0, getDate(date))

\* a < b and a <= b on Date objects: false as soon as one of them is invalid
DateLt(a, b) == a # InvalidDate /\ b # InvalidDate /\ a < b
DateLe(a, b) == a # InvalidDate /\ b # InvalidDate /\ a <= b

(***************************************************************************)
(* parseDateString / formatDateString (the same in both components).       *)
(***************************************************************************)
\* dateString.split('-').map(Number), then new Date(year, month - 1, day); a
\* missing piece is undefined, and a number derived from NaN is NaN
parseDateString(dateString) ==
    LET parts == split(dateString, "-")
        year == IF Len(parts) >= 1 THEN ToNumber(parts[1]) ELSE NaN
        month == IF Len(parts) >= 2 THEN ToNumber(parts[2]) ELSE NaN
        day == IF Len(parts) >= 3 THEN ToNumber(parts[3]) ELSE NaN
    IN  NewDate(year, IF month = NaN THEN NaN ELSE month - 1, day)

formatDateString(date) ==
    IF date = InvalidDate THEN NaNText \o <<"-">> \o NaNText \o <<"-">> \o NaNText
    ELSE LET year == NumberToString(getFullYear(date))
             month == padStart2(NumberToString(getMonth(date) + 1))
             day == padStart2(NumberToString(getDate(date)))
         IN  year \o <<"-">> \o month \o <<"-">> \o day

(***************************************************************************)
(* The texts of the generated reminders.                                   *)
(***************************************************************************)
Recordatorio == <<"R", "e", "c", "o", "r", "d", "a", "t", "o", "r", "i", "o", " ",
                  "p", "a", "r", "a", " ", "a", "p", "l", "i", "c", "a", "r", " ",
                  "l", "a", " ">>

\* `Vacuna: ${vaccineType}`
VaccineTitle(vaccineType) == <<"V", "a", "c", "u", "n", "a", ":", " ">> \o vaccineType

\* `Recordatorio para aplicar la vacuna ${vaccineType}`
VaccineDescription(vaccineType) ==
    Recordatorio \o <<"v", "a", "c", "u", "n", "a", " ">> \o vaccineType

\* `Desparasitación: ${dewormingType}`; "o'" is the one character o-acute
DewormingTitle(dewormingType) ==
    <<"D", "e", "s", "p", "a", "r", "a", "s", "i", "t", "a", "c", "i", "o'", "n", ":", " ">>
        \o dewormingType

\* `Recordatorio para aplicar la desparasitación ${dewormingType}`
DewormingDescription(dewormingType) ==
    Recordatorio
        \o <<"d", "e", "s", "p", "a", "r", "a", "s", "i", "t", "a", "c", "i", "o'", "n", " ">>
        \o dewormingType

(***************************************************************************)
(* The recurrence engine.  A call returns                                  *)
(*   outcome: "returned", "threw" (the insert failed and the error is      *)
(*            rethrown) or "hang" (a loop that never ends),                *)
(*   rows:    the rows the call inserted into "reminders", in order,       *)
(*   calls:   the number of insert calls it issued.                        *)
(***************************************************************************)
\* const maxDate = new Date(today); maxDate.setFullYear(maxDate.getFullYear() + 10)
\* (the same in both components)
MaxDateOf_ElevenYears(now) == setFullYear(now, getFullYear(now) + 11)

MaxDateOf(now) == setFullYear(now, getFullYear(now) + 10)

\* The loops below are unrolled by recursion; each round binds the date it
\* computed (d \in {...}) before going on with it.

\* VaccineTab: while (nextReminderDate < today) nextReminderDate.setFullYear(+ frequencyYears)
RECURSIVE VaccineBacklog(_, _, _)
VaccineBacklog(nextReminderDate, now, frequencyYears) ==
    IF ~DateLt(nextReminderDate, now) THEN [hang |-> FALSE, date |-> nextReminderDate]
    ELSE CHOOSE result \in
            { IF stepped = nextReminderDate THEN [hang |-> TRUE, date |-> nextReminderDate]
              ELSE VaccineBacklog(stepped, now, frequencyYears) :
              stepped \in { setFullYear(nextReminderDate,
                                        getFullYear(nextReminderDate) + frequencyYears) } } : TRUE

\* VaccineTab: while (currentReminderDate <= maxDate) { push; setFullYear(+ frequencyYears) }
RECURSIVE VaccineEmit(_, _, _, _, _, _, _)
VaccineEmit(currentReminderDate, maxDate, frequencyYears, petId, userId, vaccineType, remindersToCreate) ==
    IF ~DateLe(currentReminderDate, maxDate) THEN [hang |-> FALSE, rows |-> remindersToCreate]
    ELSE CHOOSE result \in
            { IF stepped = currentReminderDate THEN [hang |-> TRUE, rows |-> <<>>]
              ELSE VaccineEmit(stepped, maxDate, frequencyYears, petId, userId, vaccineType, pushed) :
              stepped \in { setFullYear(currentReminderDate,
                                        getFullYear(currentReminderDate) + frequencyYears) },
              pushed \in { Append(remindersToCreate,
                                  [user_id |-> userId,
                                   pet_id |-> petId,
                                   title |-> VaccineTitle(vaccineType),
                                   description |-> VaccineDescription(vaccineType),
                                   reminder_date |-> formatDateString(currentReminderDate),
                                   type |-> "vaccination"]) } } : TRUE

\* The result of the call once the loops are through
VaccineInsert(emit, insertOk) ==
    IF emit.hang THEN [outcome |-> "hang", rows |-> <<>>, calls |-> 0]
    ELSE IF Len(emit.rows) = 0 THEN [outcome |-> "returned", rows |-> <<>>, calls |-> 0]
    ELSE IF insertOk THEN [outcome |-> "returned", rows |-> emit.rows, calls |-> 1]
    ELSE [outcome |-> "threw", rows |-> <<>>, calls |-> 1]

createReminders(petId, userId, vaccineType, vaccineDate, frequencyYears, now, insertOk) ==
    CHOOSE result \in
        { VaccineInsert(IF backlog.hang THEN [hang |-> TRUE, rows |-> <<>>]
                        ELSE VaccineEmit(backlog.date, MaxDateOf(now), frequencyYears,
                                         petId, userId, vaccineType, <<>>),
                        insertOk) :
          backlog \in
            { IF DateLt(vaccineDateObj, now)
              THEN VaccineBacklog(setFullYear(vaccineDateObj,
                                              getFullYear(vaccineDateObj) + frequencyYears),
                                  now, frequencyYears)
              ELSE [hang |-> FALSE,
                    date |-> setFullYear(vaccineDateObj,
                                         getFullYear(vaccineDateObj) + frequencyYears)] :
              vaccineDateObj \in { parseDateString(vaccineDate) } } } : TRUE

\* A step that lengthens with every reminder the store already holds
DewormingStep_ByStore(date, frequencyType, frequencyValue) ==
    IF frequencyType = "months"
    THEN setMonth(date, getMonth(date) + frequencyValue + Cardinality(reminders))
    ELSE IF frequencyType = "year"
         THEN setFullYear(date, getFullYear(date) + frequencyValue + Cardinality(reminders))
    ELSE date

\* DewormingTab: one step of the recurrence, by frequencyType
DewormingStep(date, frequencyType, frequencyValue) ==
    IF frequencyType = "months" THEN setMonth(date, getMonth(date) + frequencyValue)
    ELSE IF frequencyType = "year" THEN setFullYear(date, getFullYear(date) + frequencyValue)
    ELSE date

\* DewormingTab: while (nextReminderDate < today) { step }
RECURSIVE DewormingBacklog(_, _, _, _)
DewormingBacklog(nextReminderDate, now, frequencyType, frequencyValue) ==
    IF ~DateLt(nextReminderDate, now) THEN [hang |-> FALSE, date |-> nextReminderDate]
    ELSE CHOOSE result \in
            { IF stepped = nextReminderDate THEN [hang |-> TRUE, date |-> nextReminderDate]
              ELSE DewormingBacklog(stepped, now, frequencyType, frequencyValue) :
              stepped \in { DewormingStep(nextReminderDate, frequencyType, frequencyValue) } } : TRUE

\* The result of the call once the loop is through
DewormingInsert(backlog, maxDate, petId, userId, dewormingType, insertOk) ==
    IF backlog.hang THEN [outcome |-> "hang", rows |-> <<>>, calls |-> 0]
    ELSE IF ~DateLe(backlog.date, maxDate)
         THEN [outcome |-> "returned", rows |-> <<>>, calls |-> 0]
    ELSE IF insertOk
         THEN [outcome |-> "returned",
               rows |-> << [user_id |-> userId,
                            pet_id |-> petId,
                            title |-> DewormingTitle(dewormingType),
                            description |-> DewormingDescription(dewormingType),
                            reminder_date |-> formatDateString(backlog.date),
                            type |-> "deworming"] >>,
               calls |-> 1]
    ELSE [outcome |-> "threw", rows |-> <<>>, calls |-> 1]

createNextReminder(petId, userId, dewormingType, dewormingDate, frequencyType, frequencyValue, now, insertOk) ==
    CHOOSE result \in
        { DewormingInsert(backlog, MaxDateOf(now), petId, userId, dewormingType, insertOk) :
          backlog \in
            { IF DateLt(dewormingDateObj, now)
              THEN DewormingBacklog(DewormingStep(dewormingDateObj, frequencyType, frequencyValue),
                                    now, frequencyType, frequencyValue)
              ELSE [hang |-> FALSE,
                    date |-> DewormingStep(dewormingDateObj, frequencyType, frequencyValue)] :
              dewormingDateObj \in { parseDateString(dewormingDate) } } } : TRUE

(***************************************************************************)
(* Inputs.                                                                 *)
(***************************************************************************)
\* The value of an <Input type="date">: YYYY-MM-DD
DateInput(y, m, d) ==
    NumberToString(y) \o <<"-">> \o padStart2(NumberToString(m)) \o <<"-">>
        \o padStart2(NumberToString(d))

\* The clock reading new Date(); setHours(0, 0, 0, 0) on the calendar day c
ClockOn(c) == MakeDay(c[1], c[2] - 1, c[3])

\* Dates of the dewormings the engine is run on: from a year in the past to
\* beyond ten years ahead
DewormingDates ==
    { DateInput(2023, 12, 31), DateInput(2024, 2, 29), DateInput(2024, 6, 1),
      DateInput(2025, 1, 31), DateInput(2034, 6, 1), DateInput(2034, 6, 2) }

\* Dates of the vaccines the engine is run on: those, and older ones
VaccineDates == DewormingDates \cup { DateInput(2019, 3, 15), DateInput(2020, 2, 29) }

\* Calendar days <<year, month, day>> the engine is run on
EngineClocks == { <<2024, 2, 29>>, <<2024, 6, 1>>, <<2025, 1, 31>> }

\* Intervals the engine is called with.  (With a negative interval the loops
\* run until the date leaves the range of Date, some 270,000 steps away; the
\* model stops at zero.)
EngineIntervals == 0..MaxInterval

Rabies == <<"R", "a", "b", "i", "e", "s">>

NoRun == [fn |-> "none"]

EngineInputs ==
    [fn : {"createReminders"}, label : {Rabies}, date : VaccineDates, clock : EngineClocks,
     unit : {"year"}, n : EngineIntervals, insertOk : BOOLEAN,
     outcome : {"pending"}, rows : {<<>>}, calls : {0}]
    \cup
    [fn : {"createNextReminder"}, label : {Rabies}, date : DewormingDates, clock : EngineClocks,
     unit : {"months", "year"}, n : EngineIntervals, insertOk : BOOLEAN,
     outcome : {"pending"}, rows : {<<>>}, calls : {0}]

(***************************************************************************)
(* The engine on its own: one call per behaviour, on inputs drawn in Init. *)
(***************************************************************************)
StoreIdle ==
    /\ vaccinations = {}
    /\ dewormings = {}
    /\ reminders = {}
    /\ nextId = 1
    /\ opCount = 0
    /\ last = [op |-> "none", allOk |-> TRUE]

EngineInit ==
    /\ StoreIdle
    /\ run \in EngineInputs
    /\ today = ClockOn(run.clock)

CallCreateReminders ==
    /\ run.fn = "createReminders"
    /\ run.outcome = "pending"
    /\ \E res \in { createReminders("p1", "u1", run.label, run.date, run.n, today,
                                      run.insertOk) } :
           run' = [run EXCEPT !.outcome = res.outcome, !.rows = res.rows, !.calls = res.calls]
    /\ UNCHANGED <<vaccinations, dewormings, reminders, today, nextId, opCount, last>>

CallCreateNextReminder ==
    /\ run.fn = "createNextReminder"
    /\ run.outcome = "pending"
    /\ \E res \in { createNextReminder("p1", "u1", run.label, run.date, run.unit, run.n,
                                         today, run.insertOk) } :
           run' = [run EXCEPT !.outcome = res.outcome, !.rows = res.rows, !.calls = res.calls]
    /\ UNCHANGED <<vaccinations, dewormings, reminders, today, nextId, opCount, last>>

EngineNext ==
    \/ CallCreateReminders
    \/ CallCreateNextReminder

EngineSpec == EngineInit /\ [][EngineNext]_vars

(***************************************************************************)
(* The store.  A row of "reminders" carries, besides its columns, the      *)
(* history field origin: the id of the care event whose save generated it  *)
(* (0 for none).  No operation reads it.  Free-text notes are left out.    *)
(***************************************************************************)
\* SQL LIKE as the store evaluates .like(column, pattern): % (written * as well)
\* matches any run of characters, _ any one character, \ takes the next
\* character literally, every other character matches itself, case included.
RECURSIVE LikeFrom(_, _, _, _)
LikeFrom(text, pattern, i, j) ==
    IF j > Len(pattern) THEN i > Len(text)
    ELSE IF pattern[j] \in {"%", "*"}
         THEN \/ LikeFrom(text, pattern, i, j + 1)
              \/ i <= Len(text) /\ LikeFrom(text, pattern, i + 1, j)
    ELSE IF pattern[j] = "\\"
         THEN /\ j < Len(pattern)
              /\ i <= Len(text)
              /\ text[i] = pattern[j + 1]
              /\ LikeFrom(text, pattern, i + 1, j + 2)
    ELSE /\ i <= Len(text)
         /\ (pattern[j] = "_" \/ text[i] = pattern[j])
         /\ LikeFrom(text, pattern, i + 1, j + 1)

Like(text, pattern) == LikeFrom(text, pattern, 1, 1)

Vacuna == <<"V", "a", "c", "u", "n", "a">>

Desparasitacion ==
    <<"D", "e", "s", "p", "a", "r", "a", "s", "i", "t", "a", "c", "i", "o'", "n">>

\* A delete that leaves out the filter on the pet
MatchesDelete_AnyPet(r, selectedPetId, label, marker) ==
    /\ Like(r.description, <<"%">> \o marker \o <<"%">>)
    /\ Like(r.title, <<"%">> \o label \o <<"%">>)

\* .eq("pet_id", selectedPetId).like("title", `%${label}%`).like("description", "%Vacuna%")
\* (VaccineTab) or "%Desparasitación%" (DewormingTab): the rows a delete removes
MatchesDelete(r, selectedPetId, label, marker) ==
    /\ r.pet_id = selectedPetId
    /\ Like(r.description, <<"%">> \o marker \o <<"%">>)
    /\ Like(r.title, <<"%">> \o label \o <<"%">>)

DeleteReminders(rows, selectedPetId, label, marker) ==
    { r \in rows : ~MatchesDelete(r, selectedPetId, label, marker) }

\* insert(rows): the store adds id and the default completed = false
StoredReminders(rows, firstId, eventId) ==
    { [id |-> firstId + i - 1,
       user_id |-> rows[i].user_id,
       pet_id |-> rows[i].pet_id,
       title |-> rows[i].title,
       description |-> rows[i].description,
       reminder_date |-> rows[i].reminder_date,
       type |-> rows[i].type,
       completed |-> FALSE,
       origin |-> eventId] : i \in 1..Len(rows) }

(***************************************************************************)
(* What the user can enter.                                                *)
(***************************************************************************)
Pets == {"p1", "p2"}

\* vaccine_type / deworming_type as typed; the empty text is a field left empty
VacunaTriple == <<"V", "a", "c", "u", "n", "a", " ", "T">>

Drontal == <<"D", "r", "o", "n", "t", "a", "l">>

VaccineLabels == {Rabies, VacunaTriple, <<>>}

DewormingLabels == {Drontal, <<>>}

\* the date field
FormDates == {DateInput(2023, 12, 31), DateInput(2024, 6, 1), <<>>}

\* VaccineTab <SelectItem value="1" | "2" | "3">
VaccineFrequencyOptions == { <<"1">>, <<"2">>, <<"3">> }

\* DewormingTab <SelectItem value="1-month" | "3-months" | "6-months" | "1-year">
DewormingFrequencyOptions ==
    { <<"1", "-", "m", "o", "n", "t", "h">>,
      <<"3", "-", "m", "o", "n", "t", "h", "s">>,
      <<"6", "-", "m", "o", "n", "t", "h", "s">>,
      <<"1", "-", "y", "e", "a", "r">> }

\* The days the clock shows in the course of a behaviour, in order
ClockDays == << <<2024, 6, 1>>, <<2025, 1, 31>> >>

\* A record in which a rejected delete of reminders makes the handler fail
Report_FailingOnDeleteError(op, report, id, deleteOk, inserted) ==
    [op |-> op, report |-> IF deleteOk THEN report ELSE "failure", id |-> id,
     deleteOk |-> deleteOk, inserted |-> inserted,
     allOk |-> last.allOk /\ report # "failure" /\ deleteOk]

\* What the last handler did, for the record: the toast it showed (report), the
\* care event, whether its delete of reminders went through, the ids of the
\* reminders it inserted, and whether every store call so far has succeeded.
\* handleUpdate adds, once it is past the delete, whether the update of the row
\* went through (rowOk) and how the insert of the reminders ended (insert).
Report(op, report, id, deleteOk, inserted) ==
    [op |-> op, report |-> report, id |-> id, deleteOk |-> deleteOk, inserted |-> inserted,
     allOk |-> last.allOk /\ report # "failure" /\ deleteOk]

\* truthiness of a number: 0 and NaN are falsy
Truthy(n) == n # 0 /\ n # NaN

\* a nullable number column
Null == <<>>
Some(n) == <<n>>

\* A validation that lets every form through
MissingInfo_Never(label, date) == FALSE

\* if (!selectedPetId || !vaccineType || !date): the label or the date is the
\* empty text (a pet is always selected where the form is shown)
MissingInfo(label, date) == label = <<>> \/ date = <<>>

(***************************************************************************)
(* VaccineTab.                                                             *)
(***************************************************************************)
VaccinesOf(selectedPetId) == { v \in vaccinations : v.pet_id = selectedPetId }

\* handleSubmit
VaccineTab_handleSubmit(selectedPetId, vaccineType, date, createReminder, reminderFrequency, authed, rowOk, insertOk) ==
    /\ opCount < MaxOps
    /\ opCount' = opCount + 1
    /\ UNCHANGED <<dewormings, today, run>>
    /\ IF MissingInfo(vaccineType, date)
       THEN /\ last' = Report("VaccineTab.handleSubmit", "missing",
                               0, TRUE, {})
            /\ UNCHANGED <<vaccinations, reminders, nextId>>
       ELSE IF ~authed \/ ~rowOk
       THEN /\ last' = Report("VaccineTab.handleSubmit", "failure",
                               0, TRUE, {})
            /\ UNCHANGED <<vaccinations, reminders, nextId>>
       ELSE \E frequencyYears \in { IF createReminder THEN parseInt(reminderFrequency) ELSE NaN } :
            \E res \in { IF createReminder /\ Truthy(frequencyYears)
                         THEN createReminders(selectedPetId, "u1", vaccineType, date,
                                              frequencyYears, today, insertOk)
                         ELSE [outcome |-> "returned", rows |-> <<>>, calls |-> 0] } :
            \E new \in { StoredReminders(res.rows, nextId + 1, nextId) } :
               /\ vaccinations' = vaccinations \cup
                      { [id |-> nextId,
                         pet_id |-> selectedPetId,
                         vaccine_type |-> vaccineType,
                         date |-> date,
                         create_reminder |-> createReminder,
                         reminder_frequency_years |->
                             IF frequencyYears = NaN THEN Null ELSE Some(frequencyYears)] }
               /\ reminders' = reminders \cup new
               /\ nextId' = nextId + 1 + Len(res.rows)
               /\ last' = Report("VaccineTab.handleSubmit", IF res.outcome = "returned" THEN "success" ELSE "failure",
                               nextId, TRUE, { r.id : r \in new })

\* handleUpdate, on the row editingVaccine of the list
VaccineTab_handleUpdate(selectedPetId, editingVaccine, vaccineType, date, createReminder, reminderFrequency, authed, deleteOk, rowOk, insertOk) ==
    /\ opCount < MaxOps
    /\ opCount' = opCount + 1
    /\ UNCHANGED <<dewormings, today, run>>
    /\ IF MissingInfo(vaccineType, date)
       THEN /\ last' = Report("VaccineTab.handleUpdate", "missing",
                               editingVaccine.id, TRUE, {})
            /\ UNCHANGED <<vaccinations, reminders, nextId>>
       ELSE IF ~authed
       THEN /\ last' = Report("VaccineTab.handleUpdate", "failure",
                               editingVaccine.id, TRUE, {})
            /\ UNCHANGED <<vaccinations, reminders, nextId>>
       ELSE \E kept \in { IF deleteOk
                          THEN DeleteReminders(reminders, selectedPetId,
                                               editingVaccine.vaccine_type, Vacuna)
                          ELSE reminders } :
            IF ~rowOk
            THEN /\ reminders' = kept
                 /\ last' = Report("VaccineTab.handleUpdate", "failure",
                               editingVaccine.id, deleteOk, {})
                               @@ [rowOk |-> FALSE, insert |-> "none"]
                 /\ UNCHANGED <<vaccinations, nextId>>
            ELSE \E frequencyYears \in { IF createReminder THEN parseInt(reminderFrequency)
                                         ELSE NaN } :
                 \E res \in { IF createReminder /\ Truthy(frequencyYears)
                              THEN createReminders(selectedPetId, "u1", vaccineType, date,
                                                   frequencyYears, today, insertOk)
                              ELSE [outcome |-> "returned", rows |-> <<>>, calls |-> 0] } :
                 \E new \in { StoredReminders(res.rows, nextId, editingVaccine.id) } :
                    /\ vaccinations' =
                           { IF v.id = editingVaccine.id
                             THEN [v EXCEPT !.vaccine_type = vaccineType,
                                            !.date = date,
                                            !.create_reminder = createReminder,
                                            !.reminder_frequency_years =
                                                IF frequencyYears = NaN THEN Null
                                                ELSE Some(frequencyYears)]
                             ELSE v : v \in vaccinations }
                    /\ reminders' = kept \cup new
                    /\ nextId' = nextId + Len(res.rows)
                    /\ last' = Report("VaccineTab.handleUpdate", IF res.outcome = "returned" THEN "success" ELSE "failure",
                               editingVaccine.id, deleteOk, { r.id : r \in new })
                               @@ [rowOk |-> TRUE,
                                   insert |-> IF res.calls = 0 THEN "none" ELSE res.outcome]

\* handleDelete(vaccine.id, vaccine.vaccine_type), from a row of the list
VaccineTab_handleDelete(selectedPetId, vaccineId, vaccineType, deleteOk, rowOk) ==
    /\ opCount < MaxOps
    /\ opCount' = opCount + 1
    /\ UNCHANGED <<dewormings, today, run, nextId>>
    /\ reminders' = IF deleteOk
                    THEN DeleteReminders(reminders, selectedPetId, vaccineType, Vacuna)
                    ELSE reminders
    /\ vaccinations' = IF rowOk THEN { v \in vaccinations : v.id # vaccineId }
                       ELSE vaccinations
    /\ last' = Report("VaccineTab.handleDelete", IF rowOk THEN "success" ELSE "failure",
                               vaccineId, deleteOk, {})

(***************************************************************************)
(* DewormingTab.                                                           *)
(***************************************************************************)
DewormingsOf(selectedPetId) == { d \in dewormings : d.pet_id = selectedPetId }

Month == <<"m", "o", "n", "t", "h">>

Year == <<"y", "e", "a", "r">>

\* const [value, type] = reminderFrequency.split('-');
\* frequencyValue = parseInt(value); frequencyType = type === 'month' ? 'months' : 'year'
FrequencyOf(reminderFrequency) ==
    LET parts == split(reminderFrequency, "-")
    IN  [value |-> parseInt(parts[1]),
         type |-> IF Len(parts) >= 2 /\ parts[2] = Month THEN "months" ELSE "year"]

\* handleEdit: the frequency the edit dialog opens with
DewormingTab_handleEdit(deworming) ==
    IF /\ deworming.reminder_frequency_type # Null
       /\ deworming.reminder_frequency_value # Null
       /\ Truthy(deworming.reminder_frequency_value[1])
    THEN NumberToString(deworming.reminder_frequency_value[1]) \o <<"-">> \o
         (IF deworming.reminder_frequency_type[1] = "months" THEN Month ELSE Year)
    ELSE <<"1", "-", "m", "o", "n", "t", "h">>

\* handleSubmit
DewormingTab_handleSubmit(selectedPetId, dewormingType, date, createReminder, reminderFrequency, authed, rowOk, insertOk) ==
    /\ opCount < MaxOps
    /\ opCount' = opCount + 1
    /\ UNCHANGED <<vaccinations, today, run>>
    /\ IF MissingInfo(dewormingType, date)
       THEN /\ last' = Report("DewormingTab.handleSubmit", "missing",
                               0, TRUE, {})
            /\ UNCHANGED <<dewormings, reminders, nextId>>
       ELSE IF ~authed \/ ~rowOk
       THEN /\ last' = Report("DewormingTab.handleSubmit", "failure",
                               0, TRUE, {})
            /\ UNCHANGED <<dewormings, reminders, nextId>>
       ELSE \E frequency \in { FrequencyOf(reminderFrequency) } :
            \E res \in { IF createReminder /\ Truthy(frequency.value)
                         THEN createNextReminder(selectedPetId, "u1", dewormingType, date,
                                                 frequency.type, frequency.value, today, insertOk)
                         ELSE [outcome |-> "returned", rows |-> <<>>, calls |-> 0] } :
            \E new \in { StoredReminders(res.rows, nextId + 1, nextId) } :
               /\ dewormings' = dewormings \cup
                      { [id |-> nextId,
                         pet_id |-> selectedPetId,
                         deworming_type |-> dewormingType,
                         date |-> date,
                         create_reminder |-> createReminder,
                         reminder_frequency_type |->
                             IF createReminder THEN Some(frequency.type) ELSE Null,
                         reminder_frequency_value |->
                             IF createReminder /\ frequency.value # NaN
                             THEN Some(frequency.value) ELSE Null] }
               /\ reminders' = reminders \cup new
               /\ nextId' = nextId + 1 + Len(res.rows)
               /\ last' = Report("DewormingTab.handleSubmit", IF res.outcome = "returned" THEN "success" ELSE "failure",
                               nextId, TRUE, { r.id : r \in new })

\* handleUpdate, on the row editingDeworming of the list
DewormingTab_handleUpdate(selectedPetId, editingDeworming, dewormingType, date, createReminder, reminderFrequency, authed, deleteOk, rowOk, insertOk) ==
    /\ opCount < MaxOps
    /\ opCount' = opCount + 1
    /\ UNCHANGED <<vaccinations, today, run>>
    /\ IF MissingInfo(dewormingType, date)
       THEN /\ last' = Report("DewormingTab.handleUpdate", "missing",
                               editingDeworming.id, TRUE, {})
            /\ UNCHANGED <<dewormings, reminders, nextId>>
       ELSE IF ~authed
       THEN /\ last' = Report("DewormingTab.handleUpdate", "failure",
                               editingDeworming.id, TRUE, {})
            /\ UNCHANGED <<dewormings, reminders, nextId>>
       ELSE \E kept \in { IF deleteOk
                          THEN DeleteReminders(reminders, selectedPetId,
                                               editingDeworming.deworming_type, Desparasitacion)
                          ELSE reminders } :
            IF ~rowOk
            THEN /\ reminders' = kept
                 /\ last' = Report("DewormingTab.handleUpdate", "failure",
                               editingDeworming.id, deleteOk, {})
                               @@ [rowOk |-> FALSE, insert |-> "none"]
                 /\ UNCHANGED <<dewormings, nextId>>
            ELSE \E frequency \in { FrequencyOf(reminderFrequency) } :
                 \E res \in { IF createReminder /\ Truthy(frequency.value)
                              THEN createNextReminder(selectedPetId, "u1", dewormingType, date,
                                                      frequency.type, frequency.value, today,
                                                      insertOk)
                              ELSE [outcome |-> "returned", rows |-> <<>>, calls |-> 0] } :
                 \E new \in { StoredReminders(res.rows, nextId, editingDeworming.id) } :
                    /\ dewormings' =
                           { IF d.id = editingDeworming.id
                             THEN [d EXCEPT !.deworming_type = dewormingType,
                                            !.date = date,
                                            !.create_reminder = createReminder,
                                            !.reminder_frequency_type =
                                                IF createReminder THEN Some(frequency.type)
                                                ELSE Null,
                                            !.reminder_frequency_value =
                                                IF createReminder /\ frequency.value # NaN
                                                THEN Some(frequency.value) ELSE Null]
                             ELSE d : d \in dewormings }
                    /\ reminders' = kept \cup new
                    /\ nextId' = nextId + Len(res.rows)
                    /\ last' = Report("DewormingTab.handleUpdate", IF res.outcome = "returned" THEN "success" ELSE "failure",
                               editingDeworming.id, deleteOk, { r.id : r \in new })
                               @@ [rowOk |-> TRUE,
                                   insert |-> IF res.calls = 0 THEN "none" ELSE res.outcome]

\* handleDelete(deworming.id, deworming.deworming_type), from a row of the list
DewormingTab_handleDelete(selectedPetId, dewormingId, dewormingType, deleteOk, rowOk) ==
    /\ opCount < MaxOps
    /\ opCount' = opCount + 1
    /\ UNCHANGED <<vaccinations, today, run, nextId>>
    /\ reminders' = IF deleteOk
                    THEN DeleteReminders(reminders, selectedPetId, dewormingType,
                                         Desparasitacion)
                    ELSE reminders
    /\ dewormings' = IF rowOk THEN { d \in dewormings : d.id # dewormingId }
                     ELSE dewormings
    /\ last' = Report("DewormingTab.handleDelete", IF rowOk THEN "success" ELSE "failure",
                               dewormingId, deleteOk, {})

(***************************************************************************)
(* The reminder pages: CalendarPage, Dashboard, CreateReminder.            *)
(***************************************************************************)
\* .update({ completed: true }).eq('id', reminderId)
CompleteReminder(rows, reminderId) ==
    { IF r.id = reminderId THEN [r EXCEPT !.completed = TRUE] ELSE r : r \in rows }

\* CalendarPage: the button that calls markAsCompleted is shown for the
\* reminders that are not completed
CalendarPage_pending == { r \in reminders : ~r.completed }

\* A markAsCompleted that also moves the reminder to today
CalendarPage_markAsCompleted_Rescheduling(reminderId, ok) ==
    /\ opCount < MaxOps
    /\ opCount' = opCount + 1
    /\ reminders' = IF ok
                    THEN { IF r.id = reminderId
                           THEN [r EXCEPT !.completed = TRUE,
                                          !.reminder_date = formatDateString(today)]
                           ELSE r : r \in reminders }
                    ELSE reminders
    /\ last' = Report("CalendarPage.markAsCompleted", IF ok THEN "success" ELSE "failure",
                      reminderId, TRUE, {})
    /\ UNCHANGED <<vaccinations, dewormings, today, nextId, run>>

\* CalendarPage.markAsCompleted; no message is shown either way
CalendarPage_markAsCompleted(reminderId, ok) ==
    /\ opCount < MaxOps
    /\ opCount' = opCount + 1
    /\ reminders' = IF ok THEN CompleteReminder(reminders, reminderId) ELSE reminders
    /\ last' = Report("CalendarPage.markAsCompleted", IF ok THEN "success" ELSE "failure",
                      reminderId, TRUE, {})
    /\ UNCHANGED <<vaccinations, dewormings, today, nextId, run>>

\* Dashboard: the upcoming reminders, not completed and due within the next 7 days
Dashboard_upcoming ==
    { r \in reminders : /\ ~r.completed
                        /\ today <= parseDateString(r.reminder_date)
                        /\ parseDateString(r.reminder_date) <= today + 7 }

\* Dashboard: onClick of the mark-as-done button
Dashboard_markAsDone(reminderId, ok) ==
    /\ opCount < MaxOps
    /\ opCount' = opCount + 1
    /\ reminders' = IF ok THEN CompleteReminder(reminders, reminderId) ELSE reminders
    /\ last' = Report("Dashboard.markAsDone", IF ok THEN "success" ELSE "failure",
                      reminderId, TRUE, {})
    /\ UNCHANGED <<vaccinations, dewormings, today, nextId, run>>

\* String.prototype.trim, for texts whose only white space is the blank
RECURSIVE trimStart(_)
trimStart(s) == IF s # <<>> /\ Head(s) = " " THEN trimStart(Tail(s)) ELSE s

RECURSIVE trimEnd(_)
trimEnd(s) == IF s # <<>> /\ s[Len(s)] = " " THEN trimEnd(SubSeq(s, 1, Len(s) - 1)) ELSE s

trim(s) == trimEnd(trimStart(s))

\* pet_id of a reminder that belongs to no pet
NoPet == "null"

\* CreateReminder.handleSubmit: a reminder the user writes; an empty
\* description is stored as null, which the empty text stands for
CreateReminder_handleSubmit(title, pet_id, type, reminder_date, description, authed, insertOk) ==
    /\ authed
    /\ opCount < MaxOps
    /\ opCount' = opCount + 1
    /\ UNCHANGED <<vaccinations, dewormings, today, run>>
    /\ IF trim(title) = <<>> \/ reminder_date = <<>>
       THEN /\ last' = Report("CreateReminder.handleSubmit", "missing", 0, TRUE, {})
            /\ UNCHANGED <<reminders, nextId>>
       ELSE IF ~insertOk
       THEN /\ last' = Report("CreateReminder.handleSubmit", "failure", 0, TRUE, {})
            /\ UNCHANGED <<reminders, nextId>>
       ELSE /\ reminders' = reminders \cup
                   { [id |-> nextId,
                      user_id |-> "u1",
                      pet_id |-> IF pet_id = "general" \/ pet_id = "" THEN NoPet ELSE pet_id,
                      title |-> trim(title),
                      description |-> trim(description),
                      reminder_date |-> reminder_date,
                      type |-> type,
                      completed |-> FALSE,
                      origin |-> 0] }
            /\ nextId' = nextId + 1
            /\ last' = Report("CreateReminder.handleSubmit", "success", 0, TRUE, {nextId})

\* What the user writes on the CreateReminder page
Bath == <<" ", "B", "a", "t", "h">>

ReminderTitles == {Bath, <<" ">>}

(***************************************************************************)
(* The application: one user working through the two tabs, one handler at  *)
(* a time, while the days pass.                                            *)
(***************************************************************************)
\* new Date() in the handlers reads the clock; midnight passes between handlers
AdvanceClock ==
    /\ \E i \in 1..(Len(ClockDays) - 1) :
          /\ today = ClockOn(ClockDays[i])
          /\ today' = ClockOn(ClockDays[i + 1])
    /\ UNCHANGED <<vaccinations, dewormings, reminders, nextId, opCount, last, run>>

Init ==
    /\ StoreIdle
    /\ today = ClockOn(ClockDays[1])
    /\ run = NoRun

SubmitVaccine ==
    \E selectedPetId \in Pets, vaccineType \in VaccineLabels, date \in FormDates :
    \E createReminder \in BOOLEAN, reminderFrequency \in VaccineFrequencyOptions :
    \E authed \in BOOLEAN, rowOk \in BOOLEAN, insertOk \in BOOLEAN :
       VaccineTab_handleSubmit(selectedPetId, vaccineType, date, createReminder,
                               reminderFrequency, authed, rowOk, insertOk)

UpdateVaccine ==
    \E selectedPetId \in Pets :
    \E editingVaccine \in VaccinesOf(selectedPetId) :
    \E vaccineType \in VaccineLabels, date \in FormDates :
    \E createReminder \in BOOLEAN, reminderFrequency \in VaccineFrequencyOptions :
    \E authed \in BOOLEAN, deleteOk \in BOOLEAN, rowOk \in BOOLEAN, insertOk \in BOOLEAN :
       VaccineTab_handleUpdate(selectedPetId, editingVaccine, vaccineType, date,
                               createReminder, reminderFrequency, authed, deleteOk, rowOk,
                               insertOk)

DeleteVaccine ==
    \E selectedPetId \in Pets :
    \E vaccine \in VaccinesOf(selectedPetId) :
    \E deleteOk \in BOOLEAN, rowOk \in BOOLEAN :
       VaccineTab_handleDelete(selectedPetId, vaccine.id, vaccine.vaccine_type, deleteOk, rowOk)

SubmitDeworming ==
    \E selectedPetId \in Pets, dewormingType \in DewormingLabels, date \in FormDates :
    \E createReminder \in BOOLEAN, reminderFrequency \in DewormingFrequencyOptions :
    \E authed \in BOOLEAN, rowOk \in BOOLEAN, insertOk \in BOOLEAN :
       DewormingTab_handleSubmit(selectedPetId, dewormingType, date, createReminder,
                                 reminderFrequency, authed, rowOk, insertOk)

UpdateDeworming ==
    \E selectedPetId \in Pets :
    \E editingDeworming \in DewormingsOf(selectedPetId) :
    \E dewormingType \in DewormingLabels, date \in FormDates :
    \E createReminder \in BOOLEAN :
    \E reminderFrequency \in
           DewormingFrequencyOptions \cup { DewormingTab_handleEdit(editingDeworming) } :
    \E authed \in BOOLEAN, deleteOk \in BOOLEAN, rowOk \in BOOLEAN, insertOk \in BOOLEAN :
       DewormingTab_handleUpdate(selectedPetId, editingDeworming, dewormingType, date,
                                 createReminder, reminderFrequency, authed, deleteOk, rowOk,
                                 insertOk)

DeleteDeworming ==
    \E selectedPetId \in Pets :
    \E deworming \in DewormingsOf(selectedPetId) :
    \E deleteOk \in BOOLEAN, rowOk \in BOOLEAN :
       DewormingTab_handleDelete(selectedPetId, deworming.id, deworming.deworming_type,
                                 deleteOk, rowOk)

MarkAsCompleted ==
    \E reminder \in CalendarPage_pending, ok \in BOOLEAN :
       CalendarPage_markAsCompleted(reminder.id, ok)

MarkAsDone ==
    \E reminder \in Dashboard_upcoming, ok \in BOOLEAN :
       Dashboard_markAsDone(reminder.id, ok)

SubmitReminder ==
    \E title \in ReminderTitles, pet_id \in Pets \cup {"general"} :
    \E reminder_date \in FormDates, authed \in BOOLEAN, insertOk \in BOOLEAN :
       CreateReminder_handleSubmit(title, pet_id, "general", reminder_date, <<>>, authed,
                                   insertOk)

Next ==
    \/ SubmitVaccine
    \/ UpdateVaccine
    \/ DeleteVaccine
    \/ SubmitDeworming
    \/ UpdateDeworming
    \/ DeleteDeworming
    \/ MarkAsCompleted
    \/ MarkAsDone
    \/ SubmitReminder
    \/ AdvanceClock

Spec == Init /\ [][Next]_vars

(***************************************************************************)
(* One handler run on a store that already holds several care events of    *)
(* the same pet, care events of another pet and reminders written by hand: *)
(* the store is built from what handleSubmit and CreateReminder write for  *)
(* each entry, in the order of the entries.                                *)
(***************************************************************************)
\* A description the user writes for a reminder of their own
VacunaAnual == Vacuna \o <<" ", "a", "n", "u", "a", "l">>

\* What the user has entered before: two vaccines of p1, a vaccine of p2, a
\* deworming of p1, and reminders written by hand for p1, for p2 and for no pet
FrameEntries(label1, label2) ==
    << [kind |-> "vaccine", pet_id |-> "p1", label |-> label1,
        date |-> DateInput(2023, 12, 31), frequency |-> <<"3">>],
       [kind |-> "vaccine", pet_id |-> "p1", label |-> label2,
        date |-> DateInput(2024, 6, 1), frequency |-> <<"3">>],
       [kind |-> "vaccine", pet_id |-> "p2", label |-> VacunaTriple,
        date |-> DateInput(2024, 6, 1), frequency |-> <<"3">>],
       [kind |-> "deworming", pet_id |-> "p1", label |-> Drontal,
        date |-> DateInput(2024, 6, 1), frequency |-> <<"1", "-", "y", "e", "a", "r">>],
       [kind |-> "reminder", pet_id |-> "p1", label |-> VacunaTriple,
        date |-> DateInput(2024, 6, 1), frequency |-> <<>>],
       [kind |-> "reminder", pet_id |-> "p2", label |-> VacunaTriple,
        date |-> DateInput(2024, 6, 1), frequency |-> <<>>],
       [kind |-> "reminder", pet_id |-> "general", label |-> VacunaTriple,
        date |-> DateInput(2024, 6, 1), frequency |-> <<>>] >>

\* The store after the entry e, made on the day now, s being the store before
FrameEnter(s, e, now) ==
    IF e.kind = "vaccine"
    THEN LET rows == createReminders(e.pet_id, "u1", e.label, e.date,
                                     parseInt(e.frequency), now, TRUE).rows
         IN  [s EXCEPT !.vaccinations = @ \cup
                           { [id |-> s.nextId, pet_id |-> e.pet_id,
                              vaccine_type |-> e.label, date |-> e.date,
                              create_reminder |-> TRUE,
                              reminder_frequency_years |-> Some(parseInt(e.frequency))] },
                       !.reminders = @ \cup StoredReminders(rows, s.nextId + 1, s.nextId),
                       !.nextId = @ + 1 + Len(rows)]
    ELSE IF e.kind = "deworming"
    THEN LET frequency == FrequencyOf(e.frequency)
             rows == createNextReminder(e.pet_id, "u1", e.label, e.date, frequency.type,
                                        frequency.value, now, TRUE).rows
         IN  [s EXCEPT !.dewormings = @ \cup
                           { [id |-> s.nextId, pet_id |-> e.pet_id,
                              deworming_type |-> e.label, date |-> e.date,
                              create_reminder |-> TRUE,
                              reminder_frequency_type |-> Some(frequency.type),
                              reminder_frequency_value |-> Some(frequency.value)] },
                       !.reminders = @ \cup StoredReminders(rows, s.nextId + 1, s.nextId),
                       !.nextId = @ + 1 + Len(rows)]
    ELSE [s EXCEPT !.reminders = @ \cup
                       { [id |-> s.nextId, user_id |-> "u1",
                          pet_id |-> IF e.pet_id = "general" \/ e.pet_id = ""
                                     THEN NoPet ELSE e.pet_id,
                          title |-> trim(e.label), description |-> trim(VacunaAnual),
                          reminder_date |-> e.date, type |-> "vaccination",
                          completed |-> FALSE, origin |-> 0] },
                   !.nextId = @ + 1]

FrameStore(entries, now) ==
    LET after[i \in 0..Len(entries)] ==
            IF i = 0
            THEN [vaccinations |-> {}, dewormings |-> {}, reminders |-> {}, nextId |-> 1]
            ELSE FrameEnter(after[i - 1], entries[i], now)
    IN  after[Len(entries)]

FrameInit ==
    /\ today = ClockOn(ClockDays[1])
    /\ \E label1 \in {Rabies, VacunaTriple}, label2 \in {Rabies, VacunaTriple} :
       \E s \in { FrameStore(FrameEntries(label1, label2), ClockOn(ClockDays[1])) } :
          /\ vaccinations = s.vaccinations
          /\ dewormings = s.dewormings
          /\ reminders = s.reminders
          /\ nextId = s.nextId
    /\ opCount = MaxOps - 1
    /\ last = [op |-> "none", allOk |-> TRUE]
    /\ run = NoRun

FrameNext ==
    \/ SubmitVaccine
    \/ UpdateVaccine
    \/ DeleteVaccine
    \/ SubmitDeworming
    \/ UpdateDeworming
    \/ DeleteDeworming

FrameSpec == FrameInit /\ [][FrameNext]_vars

(***************************************************************************)
(* The views: TimelineTab.fetchAllEvents and the weight list of WeightTab. *)
(* Both compute a list from rows the store returned; run holds the rows    *)
(* and the list.  Notes, icons and colours are left out.                   *)
(***************************************************************************)
SecondsPerDay == 24 * 60 * 60

\* new Date("YYYY-MM-DD").getTime(): midnight UTC of that day, counted here in
\* seconds (the milliseconds of such a time are a thousand times that); NaN
\* when the text is not written so or names no day of the calendar
DateGetTime(text) ==
    LET parts == split(text, "-")
        wellFormed == /\ Len(parts) = 3
                      /\ Len(parts[1]) = 4 /\ Len(parts[2]) = 2 /\ Len(parts[3]) = 2
                      /\ \A i \in 1..3 : \A j \in 1..Len(parts[i]) : IsDigit(parts[i][j])
        ymd == <<ToNumber(parts[1]), ToNumber(parts[2]), ToNumber(parts[3])>>
    IN  IF ~wellFormed THEN NaN
        ELSE IF ymd[2] \notin 1..12 \/ ymd[3] < 1 THEN NaN
        ELSE IF CivilFromDays(MakeDay(ymd[1], ymd[2] - 1, ymd[3])) # ymd THEN NaN
        ELSE MakeDay(ymd[1], ymd[2] - 1, ymd[3]) * SecondsPerDay

\* a - b on numbers
Minus(a, b) == IF a = NaN \/ b = NaN THEN NaN ELSE a - b

\* Array.prototype.sort(compare) with a sort that puts every element before
\* the equal ones that came ahead of it
SortReversingTies(array, compare) ==
    LET insert(sorted, x) ==
            LET ahead == { j \in 1..Len(sorted) :
                             compare[sorted[j], x] # NaN /\ compare[sorted[j], x] < 0 }
                p == IF ahead = {} THEN 0 ELSE CHOOSE j \in ahead : \A k \in ahead : k <= j
            IN  SubSeq(sorted, 1, p) \o <<x>> \o SubSeq(sorted, p + 1, Len(sorted))
        upTo[i \in 0..Len(array)] == IF i = 0 THEN <<>> ELSE insert(upTo[i - 1], array[i])
    IN  upTo[Len(array)]

\* Array.prototype.sort(compare): the sort of the language is stable, elements
\* that compare equal (0, or NaN, which counts as 0) keep their order.  The
\* comparator is passed as a function on the pairs of elements of the array.
sort(array, compare) ==
    LET insert(sorted, x) ==
            LET ahead == { j \in 1..Len(sorted) :
                             compare[sorted[j], x] = NaN \/ compare[sorted[j], x] <= 0 }
                p == IF ahead = {} THEN 0 ELSE CHOOSE j \in ahead : \A k \in ahead : k <= j
            IN  SubSeq(sorted, 1, p) \o <<x>> \o SubSeq(sorted, p + 1, Len(sorted))
        upTo[i \in 0..Len(array)] == IF i = 0 THEN <<>> ELSE insert(upTo[i - 1], array[i])
    IN  upTo[Len(array)]

\* parseFloat, on the texts of whole numbers (the weights drawn are whole)
parseFloat(s) == parseInt(s)

Kg == <<" ", "k", "g">>

\* TimelineTab: the events pushed for the three lists, in that order
TimelineEvents(weightData, vaccineData, dewormingData) ==
    [i \in 1..Len(weightData) |->
        [id |-> weightData[i].id, type |-> "weight", date |-> weightData[i].date,
         title |-> NumberToString(weightData[i].weight) \o Kg]]
    \o [i \in 1..Len(vaccineData) |->
        [id |-> vaccineData[i].id, type |-> "vaccine", date |-> vaccineData[i].date,
         title |-> vaccineData[i].vaccine_type]]
    \o [i \in 1..Len(dewormingData) |->
        [id |-> dewormingData[i].id, type |-> "deworming", date |-> dewormingData[i].date,
         title |-> dewormingData[i].deworming_type]]

\* TimelineTab: (a, b) => dateB.getTime() - dateA.getTime()
TimelineCompare(a, b) == Minus(DateGetTime(b.date), DateGetTime(a.date))

\* TimelineTab.fetchAllEvents: the list it sets; the list stays as it was
\* (events) when there is no user or a fetch fails
fetchAllEvents(events, weightData, vaccineData, dewormingData, authed, fetchOk) ==
    IF ~authed \/ ~fetchOk THEN events
    ELSE LET allEvents == TimelineEvents(weightData, vaccineData, dewormingData)
             elements == { allEvents[i] : i \in 1..Len(allEvents) }
         IN  sort(allEvents, [a \in elements, b \in elements |-> TimelineCompare(a, b)])

\* WeightTab: timestamp.split('T')[0]
timestampToDateString(timestamp) == split(timestamp, "T")[1]

\* WeightTab: pets.find(p => p.id === selectedPetId), as a list of none or one
FindPet(pets, selectedPetId) ==
    LET found == { i \in 1..Len(pets) : pets[i].id = selectedPetId }
    IN  IF found = {} THEN <<>> ELSE << pets[CHOOSE i \in found : \A k \in found : i <= k] >>

\* A WeightTab that adds the initial weight whatever the records say
hasRecordOnInitialDate_Never(weightRecords, initialDate) == FALSE

\* WeightTab: weightRecords.some(record => record.date === initialDate)
hasRecordOnInitialDate(weightRecords, initialDate) ==
    \E i \in 1..Len(weightRecords) : weightRecords[i].date = initialDate

\* WeightTab: (a, b) => dateA.getTime() - dateB.getTime()
WeightCompare(a, b) == Minus(DateGetTime(a.date), DateGetTime(b.date))

\* WeightTab: allWeightRecords; id 0 stands for the missing id of the initial entry
allWeightRecords(pets, selectedPetId, weightRecords) ==
    LET selectedPet == FindPet(pets, selectedPetId)
        initial ==
            IF selectedPet # <<>> /\ selectedPet[1].weight # Null
            THEN IF ~hasRecordOnInitialDate(weightRecords,
                                            timestampToDateString(selectedPet[1].created_at))
                 THEN << [date |-> timestampToDateString(selectedPet[1].created_at),
                          weight |-> parseFloat(NumberToString(selectedPet[1].weight[1])),
                          isInitial |-> TRUE,
                          id |-> 0] >>
                 ELSE <<>>
            ELSE <<>>
        stored == [i \in 1..Len(weightRecords) |->
                     [date |-> weightRecords[i].date,
                      weight |-> parseFloat(NumberToString(weightRecords[i].weight)),
                      isInitial |-> FALSE,
                      id |-> weightRecords[i].id]]
        elements == { (initial \o stored)[i] : i \in 1..Len(initial \o stored) }
    IN  sort(initial \o stored, [a \in elements, b \in elements |-> WeightCompare(a, b)])

(***************************************************************************)
(* The views, run on rows drawn for the pet p1.                            *)
(***************************************************************************)
MaxRows == 2

ViewDay1 == DateInput(2024, 1, 10)

ViewDay2 == DateInput(2024, 2, 1)

\* created_at of a pet: 2024-01-10T08:30:00+00:00
CreatedAt ==
    ViewDay1 \o <<"T", "0", "8", ":", "3", "0", ":", "0", "0", "+", "0", "0", ":", "0", "0">>

\* rows of weight_history
WeightRows ==
    { [id |-> 11, pet_id |-> "p1", weight |-> 10, date |-> ViewDay1],
      [id |-> 12, pet_id |-> "p1", weight |-> 11, date |-> ViewDay2],
      [id |-> 13, pet_id |-> "p1", weight |-> 9, date |-> ViewDay1] }

VaccineRows ==
    { [id |-> 21, pet_id |-> "p1", vaccine_type |-> Rabies, date |-> ViewDay1,
       create_reminder |-> FALSE, reminder_frequency_years |-> Null],
      [id |-> 22, pet_id |-> "p1", vaccine_type |-> VacunaTriple, date |-> ViewDay2,
       create_reminder |-> FALSE, reminder_frequency_years |-> Null],
      [id |-> 23, pet_id |-> "p1", vaccine_type |-> Rabies, date |-> ViewDay2,
       create_reminder |-> FALSE, reminder_frequency_years |-> Null] }

DewormingRows ==
    { [id |-> 31, pet_id |-> "p1", deworming_type |-> Drontal, date |-> ViewDay2,
       create_reminder |-> FALSE, reminder_frequency_type |-> Null,
       reminder_frequency_value |-> Null],
      [id |-> 32, pet_id |-> "p1", deworming_type |-> Drontal, date |-> ViewDay1,
       create_reminder |-> FALSE, reminder_frequency_type |-> Null,
       reminder_frequency_value |-> Null],
      [id |-> 33, pet_id |-> "p1", deworming_type |-> Drontal, date |-> ViewDay1,
       create_reminder |-> FALSE, reminder_frequency_type |-> Null,
       reminder_frequency_value |-> Null] }

\* .order("date", { ascending }): the lists of up to MaxRows of the rows that the
\* store can return, rows of one date in any order
Ordered(rows, ascending) ==
    { q \in UNION { [1..k -> rows] : k \in 0..MaxRows } :
        /\ \A i, j \in 1..Len(q) : i # j => q[i] # q[j]
        /\ \A i \in 1..(Len(q) - 1) :
              IF ascending
              THEN parseDateString(q[i].date) <= parseDateString(q[i + 1].date)
              ELSE parseDateString(q[i].date) >= parseDateString(q[i + 1].date) }

RowsOf(q) == { q[i] : i \in 1..Len(q) }

\* pets of the Tracking page; weight is null or a number
PetLists ==
    { << [id |-> "p2", weight |-> Some(30), created_at |-> CreatedAt],
         [id |-> "p1", weight |-> w, created_at |-> CreatedAt] >> :
      w \in {Null, Some(0), Some(12)} }

ViewInputs ==
    { [fn |-> "fetchAllEvents", pets |-> pets, weightData |-> weightData,
       vaccineData |-> vaccineData, dewormingData |-> dewormingData,
       authed |-> flags[1], fetchOk |-> flags[2], outcome |-> "pending", list |-> <<>>] :
      pets \in PetLists,
      weightData \in Ordered(WeightRows, FALSE),
      vaccineData \in Ordered(VaccineRows, FALSE),
      dewormingData \in Ordered(DewormingRows, FALSE),
      flags \in { <<TRUE, TRUE>>, <<TRUE, FALSE>>, <<FALSE, TRUE>> } }
    \cup
    { [fn |-> "allWeightRecords", pets |-> pets, weightData |-> weightData,
       vaccineData |-> <<>>, dewormingData |-> <<>>,
       authed |-> TRUE, fetchOk |-> TRUE, outcome |-> "pending", list |-> <<>>] :
      pets \in PetLists,
      weightData \in Ordered(WeightRows, TRUE) }

ViewInit ==
    /\ run \in ViewInputs
    /\ vaccinations = RowsOf(run.vaccineData)
    /\ dewormings = RowsOf(run.dewormingData)
    /\ reminders = {}
    /\ nextId = 1
    /\ opCount = 0
    /\ last = [op |-> "none", allOk |-> TRUE]
    /\ today = ClockOn(ClockDays[1])

\* TimelineTab: useEffect -> fetchAllEvents(selectedPetId)
TimelineTab_fetchAllEvents ==
    /\ run.fn = "fetchAllEvents"
    /\ run.outcome = "pending"
    /\ \E events \in { fetchAllEvents(run.list, run.weightData, run.vaccineData,
                                       run.dewormingData, run.authed, run.fetchOk) } :
          run' = [run EXCEPT !.outcome = IF run.authed /\ run.fetchOk THEN "set" ELSE "kept",
                             !.list = events]
    /\ UNCHANGED <<vaccinations, dewormings, reminders, today, nextId, opCount, last>>

\* WeightTab: render
WeightTab_allWeightRecords ==
    /\ run.fn = "allWeightRecords"
    /\ run.outcome = "pending"
    /\ \E records \in { allWeightRecords(run.pets, "p1", run.weightData) } :
          run' = [run EXCEPT !.outcome = "set", !.list = records]
    /\ UNCHANGED <<vaccinations, dewormings, reminders, today, nextId, opCount, last>>

ViewNext ==
    \/ TimelineTab_fetchAllEvents
    \/ WeightTab_allWeightRecords

ViewSpec == ViewInit /\ [][ViewNext]_vars

(***************************************************************************)
(* The selected pet changing while a fetch is on its way.  The effect on   *)
(* selectedPetId starts a fetch for the pet (or empties the list when no   *)
(* pet is selected); the answer of the store sets the list whenever it     *)
(* arrives.  run holds the tab, the selected pet, the fetches that have    *)
(* not been answered yet and the list the tab shows.                       *)
(***************************************************************************)
MaxSelections == 3

Tabs == {"TimelineTab", "VaccineTab", "DewormingTab"}

SwitchWeights ==
    { [id |-> 51, pet_id |-> "p1", weight |-> 10, date |-> ViewDay1],
      [id |-> 52, pet_id |-> "p2", weight |-> 30, date |-> ViewDay2] }

SwitchVaccines ==
    { [id |-> 61, pet_id |-> "p1", vaccine_type |-> Rabies, date |-> ViewDay2,
       create_reminder |-> FALSE, reminder_frequency_years |-> Null],
      [id |-> 62, pet_id |-> "p2", vaccine_type |-> VacunaTriple, date |-> ViewDay1,
       create_reminder |-> FALSE, reminder_frequency_years |-> Null] }

SwitchDewormings ==
    { [id |-> 71, pet_id |-> "p1", deworming_type |-> Drontal, date |-> ViewDay1,
       create_reminder |-> FALSE, reminder_frequency_type |-> Null,
       reminder_frequency_value |-> Null] }

\* select("*").eq("pet_id", petId).order("date", { ascending: false })
SelectByPet(rows, petId) ==
    CHOOSE q \in Ordered({ r \in rows : r.pet_id = petId }, FALSE) :
        RowsOf(q) = { r \in rows : r.pet_id = petId }

SwitchInit ==
    /\ run \in [fn : {"switch"}, tab : Tabs, selectedPetId : {""}, inFlight : {{}},
                sent : {0}, list : {<<>>}]
    /\ vaccinations = SwitchVaccines
    /\ dewormings = SwitchDewormings
    /\ reminders = {}
    /\ nextId = 1
    /\ opCount = 0
    /\ last = [op |-> "none", allOk |-> TRUE]
    /\ today = ClockOn(ClockDays[1])

\* useEffect(..., [selectedPetId]): the fetch is sent, or the list is emptied
SelectPet(petId) ==
    /\ run.fn = "switch"
    /\ run.sent < MaxSelections
    /\ petId # run.selectedPetId
    /\ run' = IF petId # ""
              THEN [run EXCEPT !.selectedPetId = petId,
                               !.sent = @ + 1,
                               !.inFlight = @ \cup { [n |-> run.sent + 1, petId |-> petId] }]
              ELSE [run EXCEPT !.selectedPetId = petId, !.sent = @ + 1, !.list = <<>>]
    /\ UNCHANGED <<vaccinations, dewormings, reminders, today, nextId, opCount, last>>

\* The store answers one of the fetches: fetchAllEvents, fetchVaccines or
\* fetchDewormings goes on from its await and sets the list, or keeps it
FetchAnswer(fetch, authed, fetchOk) ==
    /\ run.fn = "switch"
    /\ fetch \in run.inFlight
    /\ run' = [run EXCEPT
                 !.inFlight = @ \ {fetch},
                 !.list =
                    IF run.tab = "TimelineTab"
                    THEN fetchAllEvents(run.list,
                                        SelectByPet(SwitchWeights, fetch.petId),
                                        SelectByPet(vaccinations, fetch.petId),
                                        SelectByPet(dewormings, fetch.petId),
                                        authed, fetchOk)
                    ELSE IF ~fetchOk THEN run.list
                    ELSE IF run.tab = "VaccineTab"
                         THEN SelectByPet(vaccinations, fetch.petId)
                         ELSE SelectByPet(dewormings, fetch.petId)]
    /\ UNCHANGED <<vaccinations, dewormings, reminders, today, nextId, opCount, last>>

SwitchPet == \E petId \in Pets \cup {""} : SelectPet(petId)

AnswerFetch ==
    \E fetch \in run.inFlight, authed \in BOOLEAN, fetchOk \in BOOLEAN :
        FetchAnswer(fetch, authed, fetchOk)

SwitchNext ==
    \/ SwitchPet
    \/ AnswerFetch

SwitchSpec == SwitchInit /\ [][SwitchNext]_vars

(***************************************************************************)
(* The weight history of the pet p1.  run holds the tables weight_history  *)
(* and pets of the store (history, petWeight), the pet list the Tracking   *)
(* page has loaded (pets), the records WeightTab has fetched               *)
(* (weightRecords), and, for the record, the weight the pet was created    *)
(* with (createdWith).                                                     *)
(***************************************************************************)
MaxWeightOps == 3

\* the weight field and the date field of the form
WeightInputs == { <<>>, <<"9">>, <<"1", "1">> }

WeightDates == { ViewDay1, ViewDay2 }

\* The pets of the store as fetchPets reads them, ordered by name
PetsLoaded(petWeight) ==
    << [id |-> "p2", weight |-> Some(30), created_at |-> CreatedAt],
       [id |-> "p1", weight |-> petWeight, created_at |-> CreatedAt] >>

\* .order("date", { ascending: true }): every order of the rows the store may
\* answer with, rows of one date in any order
FetchAscending(rows) ==
    { q \in [1..Cardinality(rows) -> rows] :
        /\ \A i, j \in 1..Len(q) : i # j => q[i] # q[j]
        /\ \A i \in 1..(Len(q) - 1) :
              parseDateString(q[i].date) <= parseDateString(q[i + 1].date) }

\* WeightTab.fetchWeightRecords: the list it sets, or the one it keeps on error
fetchWeightRecords(weightRecords, history, petId, fetchOk) ==
    IF fetchOk THEN FetchAscending({ r \in history : r.pet_id = petId })
    ELSE { weightRecords }

WeightInit ==
    /\ \E w \in {Null, Some(12)} :
          run = [fn |-> "weight", history |-> {}, petWeight |-> w, createdWith |-> w,
                 pets |-> PetsLoaded(w), weightRecords |-> <<>>]
    /\ vaccinations = {}
    /\ dewormings = {}
    /\ reminders = {}
    /\ nextId = 1
    /\ opCount = 0
    /\ last = [op |-> "none", allOk |-> TRUE]
    /\ today = ClockOn(ClockDays[1])

\* WeightTab.handleSubmit
WeightTab_handleSubmit(selectedPetId, weight, date, authed, insertOk, updateOk, fetchOk) ==
    /\ run.fn = "weight"
    /\ opCount < MaxWeightOps
    /\ opCount' = opCount + 1
    /\ UNCHANGED <<vaccinations, dewormings, reminders, today>>
    /\ IF weight = <<>> \/ date = <<>>
       THEN /\ last' = Report("WeightTab.handleSubmit", "missing", 0, TRUE, {})
            /\ UNCHANGED <<run, nextId>>
       ELSE IF ~authed \/ ~insertOk
       THEN /\ last' = Report("WeightTab.handleSubmit", "failure", 0, TRUE, {})
            /\ UNCHANGED <<run, nextId>>
       ELSE \E history \in { run.history \cup
                               { [id |-> nextId, pet_id |-> selectedPetId,
                                  weight |-> parseFloat(weight), date |-> date] } } :
            \E weightRecords \in fetchWeightRecords(run.weightRecords, history,
                                                    selectedPetId, fetchOk) :
               /\ run' = [run EXCEPT !.history = history,
                                     !.petWeight = IF updateOk THEN Some(parseFloat(weight))
                                                   ELSE @,
                                     !.weightRecords = weightRecords]
               /\ nextId' = nextId + 1
               /\ last' = Report("WeightTab.handleSubmit", "success", nextId, TRUE, {})

\* WeightTab.handleDelete
WeightTab_handleDelete(selectedPetId, recordId, deleteOk, fetchOk) ==
    /\ run.fn = "weight"
    /\ opCount < MaxWeightOps
    /\ opCount' = opCount + 1
    /\ UNCHANGED <<vaccinations, dewormings, reminders, today, nextId>>
    /\ IF ~deleteOk
       THEN /\ last' = Report("WeightTab.handleDelete", "failure", recordId, TRUE, {})
            /\ UNCHANGED run
       ELSE \E history \in { { r \in run.history : r.id # recordId } } :
            \E weightRecords \in fetchWeightRecords(run.weightRecords, history,
                                                    selectedPetId, fetchOk) :
               /\ run' = [run EXCEPT !.history = history, !.weightRecords = weightRecords]
               /\ last' = Report("WeightTab.handleDelete", "success", recordId, TRUE, {})

\* Tracking.fetchPets: the pet list is loaded again
Tracking_fetchPets(authed, fetchOk) ==
    /\ run.fn = "weight"
    /\ opCount < MaxWeightOps
    /\ opCount' = opCount + 1
    /\ UNCHANGED <<vaccinations, dewormings, reminders, today, nextId>>
    /\ IF ~authed \/ ~fetchOk
       THEN /\ last' = Report("Tracking.fetchPets", IF authed THEN "failure" ELSE "login",
                              0, TRUE, {})
            /\ UNCHANGED run
       ELSE /\ run' = [run EXCEPT !.pets = PetsLoaded(run.petWeight)]
            /\ last' = Report("Tracking.fetchPets", "success", 0, TRUE, {})

\* allWeightRecords.slice().reverse()
reverse(array) == [i \in 1..Len(array) |-> array[Len(array) + 1 - i]]

\* weightRecords.find(wr => wr.date === date), as a list of none or one
FindByDate(weightRecords, date) ==
    LET found == { i \in 1..Len(weightRecords) : weightRecords[i].date = date }
    IN  IF found = {} THEN <<>>
        ELSE << weightRecords[CHOOSE i \in found : \A k \in found : i <= k] >>

\* The rows of the weight records table: the weight and date a row shows, the
\* record its key and its delete button refer to (button; 0 where there is
\* none), and the record the row was made for (id; 0 for the initial entry)
WeightTable(pets, selectedPetId, weightRecords) ==
    LET records == reverse(allWeightRecords(pets, selectedPetId, weightRecords))
        rows == [i \in 1..Len(records) |->
                   IF records[i].isInitial
                   THEN << [weight |-> records[i].weight, date |-> records[i].date,
                            isInitial |-> TRUE, id |-> 0, button |-> 0] >>
                   ELSE LET weightRecord == FindByDate(weightRecords, records[i].date)
                        IN  IF weightRecord = <<>> THEN <<>>
                            ELSE << [weight |-> records[i].weight, date |-> records[i].date,
                                     isInitial |-> FALSE, id |-> records[i].id,
                                     button |-> weightRecord[1].id] >>]
        flat[i \in 0..Len(rows)] == IF i = 0 THEN <<>> ELSE flat[i - 1] \o rows[i]
    IN  flat[Len(rows)]

SubmitWeight ==
    \E weight \in WeightInputs, date \in WeightDates :
    \E authed \in BOOLEAN, insertOk \in BOOLEAN, updateOk \in BOOLEAN, fetchOk \in BOOLEAN :
       WeightTab_handleSubmit("p1", weight, date, authed, insertOk, updateOk, fetchOk)

\* a click on the delete button of a row of the table
DeleteWeight ==
    \E row \in RowsOf(WeightTable(run.pets, "p1", run.weightRecords)) :
    \E deleteOk \in BOOLEAN, fetchOk \in BOOLEAN :
       /\ ~row.isInitial
       /\ WeightTab_handleDelete("p1", row.button, deleteOk, fetchOk)

LoadPets == \E authed \in BOOLEAN, fetchOk \in BOOLEAN : Tracking_fetchPets(authed, fetchOk)

WeightNext ==
    \/ SubmitWeight
    \/ DeleteWeight
    \/ LoadPets

WeightSpec == WeightInit /\ [][WeightNext]_vars

(***************************************************************************)
(* parseDateString and formatDateString, one after the other, on the days  *)
(* of the calendar.                                                        *)
(***************************************************************************)
\* The days drawn, as <<year, month, day>>
RoundTripYears == {1, 50, 99, 100, 999, 1000, 1900, 1999, 2024, 9999}

RoundTripDays ==
    { c \in RoundTripYears \X (1..12) \X {1, 15, 28, 29, 30, 31} :
        CivilFromDays(MakeDay(c[1], c[2] - 1, c[3])) = c }

\* The day c written YYYY-MM-DD
DateTextOf(c) ==
    LET year == NumberToString(c[1])
        zeros == [i \in 1..(4 - Len(year)) |-> "0"]
    IN  zeros \o year \o <<"-">> \o padStart2(NumberToString(c[2])) \o <<"-">>
          \o padStart2(NumberToString(c[3]))

RoundTripInputs ==
    { [fn |-> "roundTrip", civil |-> c, outcome |-> "pending",
       parsed |-> InvalidDate, formatted |-> <<>>] : c \in RoundTripDays }

RoundTripInit ==
    /\ StoreIdle
    /\ run \in RoundTripInputs
    /\ today = ClockOn(ClockDays[1])

\* parseDateString(formatDateString(d)) for the Date d of the day, and
\* formatDateString(parseDateString(s)) for the text s of the day
CallRoundTrip ==
    /\ run.fn = "roundTrip"
    /\ run.outcome = "pending"
    /\ \E d \in { MakeDay(run.civil[1], run.civil[2] - 1, run.civil[3]) } :
       \E s \in { DateTextOf(run.civil) } :
          run' = [run EXCEPT !.outcome = "returned",
                             !.parsed = parseDateString(formatDateString(d)),
                             !.formatted = formatDateString(parseDateString(s))]
    /\ UNCHANGED <<vaccinations, dewormings, reminders, today, nextId, opCount, last>>

RoundTripNext == CallRoundTrip

RoundTripSpec == RoundTripInit /\ [][RoundTripNext]_vars

(***************************************************************************)
(* The engine called twice with the same arguments on the same day; each   *)
(* call inserts its reminders, so the second call finds the store changed. *)
(***************************************************************************)
RepeatIntervals == {1, 2, 3}

RepeatInputs ==
    [fn : {"createReminders"}, label : {Rabies}, date : VaccineDates, clock : EngineClocks,
     unit : {"year"}, n : RepeatIntervals, outcome : {"pending"},
     first : {<<>>}, second : {<<>>}]
    \cup
    [fn : {"createNextReminder"}, label : {Drontal}, date : DewormingDates,
     clock : EngineClocks, unit : {"months", "year"}, n : RepeatIntervals,
     outcome : {"pending"}, first : {<<>>}, second : {<<>>}]

RepeatInit ==
    /\ StoreIdle
    /\ run \in RepeatInputs
    /\ today = ClockOn(run.clock)

\* The call of the engine that run describes
RepeatCall ==
    IF run.fn = "createReminders"
    THEN createReminders("p1", "u1", run.label, run.date, run.n, today, TRUE)
    ELSE createNextReminder("p1", "u1", run.label, run.date, run.unit, run.n, today, TRUE)

FirstCall ==
    /\ run.outcome = "pending"
    /\ \E res \in { RepeatCall } :
          /\ run' = [run EXCEPT !.outcome = "once", !.first = res.rows]
          /\ reminders' = reminders \cup StoredReminders(res.rows, nextId, 0)
          /\ nextId' = nextId + Len(res.rows)
    /\ UNCHANGED <<vaccinations, dewormings, today, opCount, last>>

SecondCall ==
    /\ run.outcome = "once"
    /\ \E res \in { RepeatCall } :
          /\ run' = [run EXCEPT !.outcome = "twice", !.second = res.rows]
          /\ reminders' = reminders \cup StoredReminders(res.rows, nextId, 0)
          /\ nextId' = nextId + Len(res.rows)
    /\ UNCHANGED <<vaccinations, dewormings, today, opCount, last>>

RepeatNext ==
    \/ FirstCall
    \/ SecondCall

RepeatSpec == RepeatInit /\ [][RepeatNext]_vars

(***************************************************************************)
(* Two sessions editing the same care event at once.  handleUpdate awaits  *)
(* the store three times: the delete of the reminders, the update of the   *)
(* row, the insert of the new reminders; between its awaits the other      *)
(* session may run.  run holds, per session, the form, the row as the      *)
(* dialog showed it (editing), the place in handleUpdate (pc) and the      *)
(* count of store calls made so far at its delete and at its insert.       *)
(***************************************************************************)
Sessions == {"A", "B"}

RaceDate == DateInput(2024, 6, 1)

\* The care event both sessions edit, with the reminders its creation generated
RaceEvents ==
    { [kind |-> "vaccine",
       row |-> [id |-> 1, pet_id |-> "p1", vaccine_type |-> label, date |-> RaceDate,
                create_reminder |-> TRUE, reminder_frequency_years |-> Some(1)],
       rows |-> createReminders("p1", "u1", label, RaceDate, 1, ClockOn(ClockDays[1]),
                                TRUE).rows] : label \in {Rabies, VacunaTriple} }
    \cup
    { [kind |-> "deworming",
       row |-> [id |-> 1, pet_id |-> "p1", deworming_type |-> Drontal, date |-> RaceDate,
                create_reminder |-> TRUE, reminder_frequency_type |-> Some("year"),
                reminder_frequency_value |-> Some(1)],
       rows |-> createNextReminder("p1", "u1", Drontal, RaceDate, "year", 1,
                                   ClockOn(ClockDays[1]), TRUE).rows] }

\* What a session has in its form when it saves
RaceForms(kind) ==
    [createReminder : BOOLEAN,
     reminderFrequency : IF kind = "vaccine" THEN { <<"1">>, <<"2">> }
                         ELSE { <<"1", "-", "m", "o", "n", "t", "h">>,
                                <<"1", "-", "y", "e", "a", "r">> }]

RaceInputs ==
    UNION { { [fn |-> "race", kind |-> event.kind, calls |-> 0,
               sessions |-> [s \in Sessions |->
                                [pc |-> "delete", editing |-> event.row, form |-> forms[s],
                                 deletedAt |-> 0, insertedAt |-> 0, failed |-> FALSE]]] :
              forms \in [Sessions -> RaceForms(event.kind)] } : event \in RaceEvents }

RaceInit ==
    /\ run \in RaceInputs
    /\ \E event \in RaceEvents :
          /\ event.row = run.sessions["A"].editing
          /\ vaccinations = IF event.kind = "vaccine" THEN {event.row} ELSE {}
          /\ dewormings = IF event.kind = "deworming" THEN {event.row} ELSE {}
          /\ reminders = StoredReminders(event.rows, 2, 1)
          /\ nextId = 2 + Len(event.rows)
    /\ opCount = 1
    /\ last = [op |-> "none", allOk |-> TRUE]
    /\ today = ClockOn(ClockDays[1])

\* An insert that takes the place of the reminders the event already has
InsertReminders_Replacing(stored, rows, firstId, eventId) ==
    { r \in stored : r.origin # eventId } \cup StoredReminders(rows, firstId, eventId)

\* from("reminders").insert(rows): the rows are added to what the store holds
InsertReminders(stored, rows, firstId, eventId) ==
    stored \cup StoredReminders(rows, firstId, eventId)

\* handleUpdate up to the answer of the delete of the old reminders
RaceDelete(s, deleteOk) ==
    LET me == run.sessions[s]
    IN  /\ me.pc = "delete"
        /\ reminders' =
              IF ~deleteOk THEN reminders
              ELSE IF run.kind = "vaccine"
                   THEN DeleteReminders(reminders, "p1", me.editing.vaccine_type, Vacuna)
                   ELSE DeleteReminders(reminders, "p1", me.editing.deworming_type,
                                        Desparasitacion)
        /\ run' = [run EXCEPT !.calls = @ + 1,
                              !.sessions[s].pc = "update",
                              !.sessions[s].deletedAt = run.calls + 1,
                              !.sessions[s].failed = ~deleteOk]
        /\ UNCHANGED <<vaccinations, dewormings, today, nextId, opCount, last>>

\* handleUpdate from there to the answer of the update of the row; the label
\* and the date of the form are those of the row
RaceUpdate(s, rowOk) ==
    LET me == run.sessions[s]
        frequency == FrequencyOf(me.form.reminderFrequency)
        frequencyYears == IF me.form.createReminder THEN parseInt(me.form.reminderFrequency)
                          ELSE NaN
    IN  /\ me.pc = "update"
        /\ vaccinations' =
              IF run.kind = "vaccine" /\ rowOk
              THEN { IF v.id = me.editing.id
                     THEN [v EXCEPT !.vaccine_type = me.editing.vaccine_type,
                                    !.date = me.editing.date,
                                    !.create_reminder = me.form.createReminder,
                                    !.reminder_frequency_years =
                                        IF frequencyYears = NaN THEN Null
                                        ELSE Some(frequencyYears)]
                     ELSE v : v \in vaccinations }
              ELSE vaccinations
        /\ dewormings' =
              IF run.kind = "deworming" /\ rowOk
              THEN { IF d.id = me.editing.id
                     THEN [d EXCEPT !.deworming_type = me.editing.deworming_type,
                                    !.date = me.editing.date,
                                    !.create_reminder = me.form.createReminder,
                                    !.reminder_frequency_type =
                                        IF me.form.createReminder THEN Some(frequency.type)
                                        ELSE Null,
                                    !.reminder_frequency_value =
                                        IF me.form.createReminder /\ frequency.value # NaN
                                        THEN Some(frequency.value) ELSE Null]
                     ELSE d : d \in dewormings }
              ELSE dewormings
        /\ run' = [run EXCEPT !.calls = @ + 1,
                              !.sessions[s].pc = IF rowOk THEN "insert" ELSE "done",
                              !.sessions[s].failed = me.failed \/ ~rowOk]
        /\ UNCHANGED <<reminders, today, nextId, opCount, last>>

\* handleUpdate from there to its end: createReminders / createNextReminder
RaceInsert(s, insertOk) ==
    LET me == run.sessions[s]
        frequency == FrequencyOf(me.form.reminderFrequency)
    IN  /\ me.pc = "insert"
        /\ \E res \in { IF \/ ~me.form.createReminder
                           \/ run.kind = "vaccine"
                                 /\ ~Truthy(parseInt(me.form.reminderFrequency))
                           \/ run.kind = "deworming" /\ ~Truthy(frequency.value)
                        THEN [outcome |-> "returned", rows |-> <<>>, calls |-> 0]
                        ELSE IF run.kind = "vaccine"
                        THEN createReminders("p1", "u1", me.editing.vaccine_type,
                                             me.editing.date,
                                             parseInt(me.form.reminderFrequency), today,
                                             insertOk)
                        ELSE createNextReminder("p1", "u1", me.editing.deworming_type,
                                                me.editing.date, frequency.type,
                                                frequency.value, today, insertOk) } :
              /\ reminders' = InsertReminders(reminders, res.rows, nextId, me.editing.id)
              /\ nextId' = nextId + Len(res.rows)
              /\ run' = [run EXCEPT !.calls = @ + 1,
                                    !.sessions[s].pc = "done",
                                    !.sessions[s].insertedAt = run.calls + 1,
                                    !.sessions[s].failed =
                                        me.failed \/ res.outcome # "returned"]
        /\ UNCHANGED <<vaccinations, dewormings, today, opCount, last>>

RaceDeleteStep == \E s \in Sessions, deleteOk \in BOOLEAN : RaceDelete(s, deleteOk)

RaceUpdateStep == \E s \in Sessions, rowOk \in BOOLEAN : RaceUpdate(s, rowOk)

RaceInsertStep == \E s \in Sessions, insertOk \in BOOLEAN : RaceInsert(s, insertOk)

RaceNext ==
    \/ RaceDeleteStep
    \/ RaceUpdateStep
    \/ RaceInsertStep

RaceSpec == RaceInit /\ [][RaceNext]_vars

(***************************************************************************)
(* The calendar, as the claims speak of it: dates <<year, month, day>>     *)
(* compared field by field, independent of the Date object.                *)
(***************************************************************************)
\* The year, month and day written in a YYYY-MM-DD text
CivilOfText(t) ==
    LET parts == split(t, "-")
    IN  <<ToNumber(parts[1]), ToNumber(parts[2]), ToNumber(parts[3])>>

CivilLt(a, b) ==
    \/ a[1] < b[1]
    \/ a[1] = b[1] /\ a[2] < b[2]
    \/ a[1] = b[1] /\ a[2] = b[2] /\ a[3] < b[3]

CivilLe(a, b) == a = b \/ CivilLt(a, b)

DaysInMonth(y, m) ==
    IF m = 2 THEN (IF IsLeap(y) THEN 29 ELSE 28)
    ELSE IF m \in {4, 6, 9, 11} THEN 30 ELSE 31

\* The calendar month k months after the month of c, as <<year, month>>
MonthAfter(c, k) ==
    LET t == c[1] * 12 + (c[2] - 1) + k
    IN  <<t \div 12, (t % 12) + 1>>

\* c + k months: the same day of the month k months later; where that month
\* is too short, its last day or the first day of the month after it
MonthsLater(c, k) ==
    LET ym == MonthAfter(c, k)
        after == MonthAfter(c, k + 1)
    IN  IF c[3] <= DaysInMonth(ym[1], ym[2]) THEN { <<ym[1], ym[2], c[3]>> }
        ELSE { <<ym[1], ym[2], DaysInMonth(ym[1], ym[2])>>, <<after[1], after[2], 1>> }

\* c + k years, Feb 29 rolling to Mar 1 in a year that has none
YearsLater(c, k) ==
    IF c[3] <= DaysInMonth(c[1] + k, c[2]) THEN <<c[1] + k, c[2], c[3]>>
    ELSE <<c[1] + k, 3, 1>>

DueDates(rows) == [i \in 1..Len(rows) |-> rows[i].reminder_date]

DueCivil(rows) == [i \in 1..Len(rows) |-> CivilOfText(rows[i].reminder_date)]

RunDone == run.fn # "none" /\ run.outcome # "pending"

RunStart == CivilOfText(run.date)

(***************************************************************************)
(* C1, C2.  Reminders of an edited or deleted care event.                  *)
(***************************************************************************)
\* Every store call of the last handler succeeded and the handler said so
LastAllOk == last.op # "none" /\ last.report = "success" /\ last.deleteOk

\* The reminders in the store that the saves of care event id generated
GeneratedFor(id) == { r \in reminders : r.origin = id }

\* C1 as claimed: after an edit of a vaccine or deworming in which every store
\* call succeeds, none of the reminders generated for that event before the
\* edit is left: the event's reminders are exactly the batch the edit inserted
\* (none when recurrence was switched off).
C1_EditReplacesReminders ==
    (LastAllOk /\ last.op \in {"VaccineTab.handleUpdate", "DewormingTab.handleUpdate"})
        => { r.id : r \in GeneratedFor(last.id) } = last.inserted

\* C2 as claimed: after a delete of a vaccine or deworming in which every store
\* call succeeds, the care event's row is gone and no reminder generated for it
\* remains in the store.
C2_DeleteRemovesReminders ==
    (LastAllOk /\ last.op \in {"VaccineTab.handleDelete", "DewormingTab.handleDelete"})
        => /\ \A e \in vaccinations \cup dewormings : e.id # last.id
           /\ GeneratedFor(last.id) = {}

(***************************************************************************)
(* C3.  The deworming form's frequency options.                            *)
(***************************************************************************)
\* What each option of the form says: every month, every 3 months, every 6
\* months, every year
OptionMeaning(option) ==
    IF option = <<"1", "-", "m", "o", "n", "t", "h">> THEN [unit |-> "months", interval |-> 1]
    ELSE IF option = <<"3", "-", "m", "o", "n", "t", "h", "s">> THEN [unit |-> "months", interval |-> 3]
    ELSE IF option = <<"6", "-", "m", "o", "n", "t", "h", "s">> THEN [unit |-> "months", interval |-> 6]
    ELSE [unit |-> "year", interval |-> 1]

\* C3 as claimed: a deworming saved with recurrence under one of the form's four
\* options is stored with the unit and interval of that option: months/1,
\* months/3, months/6 and year/1.
C3_OptionStoredAsSelected ==
    [][\A selectedPetId \in Pets, option \in DewormingFrequencyOptions :
          DewormingTab_handleSubmit(selectedPetId, Drontal, DateInput(2024, 6, 1), TRUE,
                                    option, TRUE, TRUE, TRUE)
              => \E d \in dewormings' \ dewormings :
                    /\ d.reminder_frequency_type = Some(OptionMeaning(option).unit)
                    /\ d.reminder_frequency_value = Some(OptionMeaning(option).interval)]_vars

(***************************************************************************)
(* C4.  The Rabies scenario.                                               *)
(***************************************************************************)
RabiesRun ==
    /\ run.fn = "createReminders"
    /\ run.label = Rabies
    /\ run.date = DateInput(2019, 3, 15)
    /\ run.clock = <<2024, 6, 1>>
    /\ run.n = 1
    /\ run.outcome = "returned"
    /\ run.insertOk

\* C4 as claimed: for the vaccine Rabies of 2019-03-15 repeated every year, run
\* on 2024-06-01, createReminders emits exactly the five due dates 2025-03-15 to
\* 2029-03-15, in that order.
C4_RabiesFiveDates ==
    RabiesRun =>
        DueDates(run.rows) = [i \in 1..5 |-> DateInput(2024 + i, 3, 15)]

\* C4 as amended: in that scenario createReminders emits exactly the ten due
\* dates 2025-03-15, 2026-03-15, ..., 2034-03-15, in that order: one a year from
\* the first anniversary not before today up to today + 10 years (2034-06-01).
C4_RabiesTenDates ==
    RabiesRun =>
        DueDates(run.rows) = [i \in 1..10 |-> DateInput(2024 + i, 3, 15)]

C4_Witness == RabiesRun /\ Len(run.rows) > 0

(***************************************************************************)
(* C5.  The horizon.                                                       *)
(***************************************************************************)
\* C5: with a positive interval, no reminder inserted by createReminders or by
\* createNextReminder is due later than today + 10 calendar years, whatever
\* occurredOn is: the cap is measured from today.
C5_HorizonBound ==
    (RunDone /\ run.n >= 1) =>
        \A i \in 1..Len(run.rows) :
            CivilLe(DueCivil(run.rows)[i], YearsLater(run.clock, 10))

\* a run whose last reminder falls in the tenth year after today, for an event
\* that lies more than ten years before it
C5_Witness ==
    /\ RunDone /\ run.n >= 1 /\ Len(run.rows) > 0
    /\ DueCivil(run.rows)[Len(run.rows)][1] = run.clock[1] + 10
    /\ RunStart[1] + 10 < DueCivil(run.rows)[Len(run.rows)][1]

(***************************************************************************)
(* C6.  Backlog collapsing.                                                *)
(***************************************************************************)
\* The occurrences occurredOn + k * interval years that are not before today
OccurrencesFromToday ==
    { k \in 1..12 : ~CivilLt(YearsLater(RunStart, k * run.n), run.clock) }

\* C6: for a vaccine whose occurredOn is before today, with a positive interval,
\* the first due date emitted by createReminders is the earliest occurrence
\* occurredOn + k * interval years (k >= 1) that is not before today, and no
\* reminder is due in the past.
C6_FirstDueIsEarliestOccurrence ==
    (/\ run.fn = "createReminders" /\ run.outcome = "returned" /\ run.n >= 1
     /\ CivilLt(RunStart, run.clock) /\ Len(run.rows) > 0)
    =>
        LET kmin == CHOOSE k \in OccurrencesFromToday :
                        \A j \in OccurrencesFromToday : k <= j
        IN  /\ DueCivil(run.rows)[1] = YearsLater(RunStart, kmin * run.n)
            /\ \A i \in 1..Len(run.rows) : ~CivilLt(DueCivil(run.rows)[i], run.clock)

(***************************************************************************)
(* C7.  One reminder per deworming run.                                    *)
(***************************************************************************)
DewormingRunOk ==
    /\ run.fn = "createNextReminder" /\ run.outcome = "returned" /\ run.insertOk
    /\ run.unit \in {"months", "year"} /\ run.n >= 1

C7_WitnessNone == DewormingRunOk /\ Len(run.rows) = 0

(***************************************************************************)
(* C8.  The first reminder of an event logged today or in the future.      *)
(***************************************************************************)
\* occurredOn + interval, in the unit of the run
OnePeriodLater ==
    IF run.unit = "months" THEN MonthsLater(RunStart, run.n)
    ELSE MonthsLater(RunStart, 12 * run.n)

\* C8: when occurredOn is today or in the future (recurrence enabled, positive
\* interval) the first reminder emitted, vaccine and deworming, is due exactly
\* at occurredOn + interval; and no reminder is ever due on occurredOn itself.
C8_FirstDueOnePeriodLater ==
    (RunDone /\ run.outcome = "returned" /\ run.n >= 1 /\ Len(run.rows) > 0)
    =>
        /\ ~CivilLt(RunStart, run.clock) => DueCivil(run.rows)[1] \in OnePeriodLater
        /\ \A i \in 1..Len(run.rows) : DueCivil(run.rows)[i] # RunStart

(***************************************************************************)
(* C9.  A non-positive interval.                                           *)
(***************************************************************************)
\* C9: when the interval is zero or negative the engine fails with a
\* validation error and writes nothing, instead of looping without end.
C9_NonPositiveIntervalRejected ==
    (RunDone /\ run.n <= 0) =>
        /\ run.outcome = "ValidationError"
        /\ run.rows = <<>>

(***************************************************************************)
(* C10.  One future reminder per care event.                               *)
(***************************************************************************)
\* The reminders a care event owns that are due today or later
FutureOwned(petId, title) ==
    { r \in reminders : /\ r.pet_id = petId
                        /\ r.title = title
                        /\ CivilLe(CivilFromDays(today), CivilOfText(r.reminder_date)) }

AtMostOneFutureReminder ==
    /\ \A v \in vaccinations :
          Cardinality(FutureOwned(v.pet_id, VaccineTitle(v.vaccine_type))) <= 1
    /\ \A d \in dewormings :
          Cardinality(FutureOwned(d.pet_id, DewormingTitle(d.deworming_type))) <= 1

\* C10 as claimed: in every state reached by creates, edits and deletes, one
\* after the other, whose store calls all succeeded, each care event owns at
\* most one reminder due today or later.
C10_AtMostOneFutureReminder == last.allOk => AtMostOneFutureReminder

(***************************************************************************)
(* C11.  A reported failure.                                               *)
(***************************************************************************)
CareEventHandlers ==
    { "VaccineTab.handleSubmit", "VaccineTab.handleUpdate", "VaccineTab.handleDelete",
      "DewormingTab.handleSubmit", "DewormingTab.handleUpdate", "DewormingTab.handleDelete" }

\* C11 as claimed: whenever a create, edit or delete of a vaccine or deworming
\* reports failure, no care event row has been inserted or changed and no
\* reminder has been added; at most, reminders the delete step removed are
\* missing.
C11_FailureLeavesStateUnchanged ==
    [][(opCount' = opCount + 1 /\ last'.op \in CareEventHandlers /\ last'.report = "failure")
          => /\ vaccinations' = vaccinations
             /\ dewormings' = dewormings
             /\ reminders' \subseteq reminders]_vars

(***************************************************************************)
(* C12.  Completing the pending reminder of a recurring deworming.         *)
(***************************************************************************)
CompletionHandlers == { "CalendarPage.markAsCompleted", "Dashboard.markAsDone" }

\* C12 as claimed: when the pending reminder generated for a recurring
\* deworming has been marked completed, the deworming has a pending reminder
\* again: the one for the following occurrence.
C12_CompletionRollsForward ==
    (last.op \in CompletionHandlers /\ last.report = "success")
        => \A d \in dewormings :
              (d.create_reminder /\ \E r \in GeneratedFor(d.id) : r.id = last.id)
                  => \E r \in GeneratedFor(d.id) : ~r.completed

TimelineSet == run.fn = "fetchAllEvents" /\ run.outcome = "set"

\* The place of an event in the list it was pushed to
PushedAt(event) ==
    LET all == TimelineEvents(run.weightData, run.vaccineData, run.dewormingData)
    IN  CHOOSE i \in 1..Len(all) : all[i] = event

\* C13: the timeline holds the events of the three lists, latest date first, and
\* events of one date in the order they were pushed: weights, vaccines,
\* dewormings, each in the order the store returned them.
C13_TimelineOrder ==
    TimelineSet =>
        LET all == TimelineEvents(run.weightData, run.vaccineData, run.dewormingData)
        IN  /\ Len(run.list) = Len(all)
            /\ \A i \in 1..Len(all) : \E j \in 1..Len(run.list) : run.list[j] = all[i]
            /\ \A i, j \in 1..Len(run.list) :
                  i < j => /\ CivilLe(CivilOfText(run.list[j].date), CivilOfText(run.list[i].date))
                           /\ run.list[i].date = run.list[j].date
                                 => PushedAt(run.list[i]) < PushedAt(run.list[j])

\* The example: a weight and a vaccine of 2024-01-10 and a deworming of
\* 2024-02-01 give deworming, weight, vaccine
C13_Witness ==
    /\ TimelineSet
    /\ [i \in 1..Len(run.weightData) |-> run.weightData[i].date] = <<ViewDay1>>
    /\ [i \in 1..Len(run.vaccineData) |-> run.vaccineData[i].date] = <<ViewDay1>>
    /\ [i \in 1..Len(run.dewormingData) |-> run.dewormingData[i].date] = <<ViewDay2>>
    /\ [i \in 1..Len(run.list) |-> run.list[i].type] = <<"deworming", "weight", "vaccine">>

\* The pet whose tab is open
ViewPet == CHOOSE pet \in RowsOf(run.pets) : pet.id = "p1"

\* The day the pet was created: the date its created_at begins with
CreationDate == SubSeq(ViewPet.created_at, 1, 10)

\* The pet has a weight and no stored weight record is dated on its creation date
InitialWeightDue ==
    /\ ViewPet.weight # Null
    /\ \A i \in 1..Len(run.weightData) : run.weightData[i].date # CreationDate

WeightListSet == run.fn = "allWeightRecords" /\ run.outcome = "set"

\* C14: the weight list holds exactly one initial-weight entry, dated on the
\* pet's creation date and carrying pet.weight, if the pet has a weight and no
\* stored record is dated on that day, and none otherwise; the stored records
\* are all in the list.
C14_InitialWeightEntry ==
    WeightListSet =>
        LET initial == { i \in 1..Len(run.list) : run.list[i].isInitial }
        IN  /\ Cardinality(initial) = IF InitialWeightDue THEN 1 ELSE 0
            /\ \A i \in initial : /\ run.list[i].date = CreationDate
                                  /\ run.list[i].weight = ViewPet.weight[1]
            /\ Len(run.list) = Len(run.weightData) + Cardinality(initial)
            /\ \A i \in 1..Len(run.weightData) :
                  \E j \in 1..Len(run.list) :
                     /\ ~run.list[j].isInitial
                     /\ run.list[j].id = run.weightData[i].id

\* A list with the initial entry ahead of a stored record
C14_Witness ==
    /\ WeightListSet
    /\ InitialWeightDue
    /\ Len(run.list) = 2
    /\ run.list[1].isInitial

\* C15 as claimed: the timeline of a pet that has a weight and no weight record
\* on its creation date shows the initial weight: a weight event dated on the
\* creation date.
C15_TimelineShowsInitialWeight ==
    (TimelineSet /\ InitialWeightDue)
        => \E i \in 1..Len(run.list) :
              run.list[i].type = "weight" /\ run.list[i].date = CreationDate

(***************************************************************************)
(* C17.  Formatting and parsing a date.                                    *)
(***************************************************************************)
\* C17 as claimed: for every day d of the calendar,
\* parseDateString(formatDateString(d)) has the year, month and day of d, and
\* for its text s, written YYYY-MM-DD, formatDateString(parseDateString(s)) is s.
C17_RoundTrip ==
    (run.fn = "roundTrip" /\ run.outcome = "returned")
        => /\ run.parsed # InvalidDate
           /\ CivilFromDays(run.parsed) = run.civil
           /\ run.formatted = DateTextOf(run.civil)

C18_WitnessDeworming ==
    /\ run.outcome = "twice"
    /\ run.fn = "createNextReminder"
    /\ Len(run.second) = 1
    /\ Cardinality(reminders) = 2

(***************************************************************************)
(* C19.  Two sessions that edit the same care event are not kept apart:    *)
(* when both have saved with the recurrence on, every store call has       *)
(* succeeded and each session's delete came before the other's insert,     *)
(* the store holds the same reminder (pet, title, due date) more than once *)
(* or holds a reminder of the event that the row, as finally stored, does  *)
(* not generate.                                                           *)
(***************************************************************************)
Duplicates ==
    \E r1 \in reminders, r2 \in reminders :
        /\ r1.id # r2.id
        /\ r1.pet_id = r2.pet_id
        /\ r1.title = r2.title
        /\ r1.reminder_date = r2.reminder_date

DateSet(res) == { res.rows[i].reminder_date : i \in 1..Len(res.rows) }

\* The due dates the row, as stored, generates on the clock's day
RowDueDates ==
    UNION ({ IF v.create_reminder /\ v.reminder_frequency_years # Null
             THEN DateSet(createReminders(v.pet_id, "u1", v.vaccine_type, v.date,
                                          v.reminder_frequency_years[1], today, TRUE))
             ELSE {} : v \in vaccinations }
           \cup
           { IF d.create_reminder /\ d.reminder_frequency_type # Null
                /\ d.reminder_frequency_value # Null
             THEN DateSet(createNextReminder(d.pet_id, "u1", d.deworming_type, d.date,
                                             d.reminder_frequency_type[1],
                                             d.reminder_frequency_value[1], today, TRUE))
             ELSE {} : d \in dewormings })

StaleReminders == \E r \in reminders : r.origin # 0 /\ r.reminder_date \notin RowDueDates

RaceDone ==
    /\ run.fn = "race"
    /\ \A s \in Sessions : run.sessions[s].pc = "done" /\ ~run.sessions[s].failed

RaceOverlapped ==
    \A s \in Sessions, t \in Sessions :
        /\ run.sessions[s].form.createReminder
        /\ run.sessions[s].deletedAt < run.sessions[t].insertedAt

C19_ConcurrentEditsCorruptReminders ==
    (RaceDone /\ RaceOverlapped) => (Duplicates \/ StaleReminders)

\* The label holds "Vacuna", so each delete did remove the old reminders, and
\* the two inserts still left every reminder twice
C19_Witness ==
    /\ RaceDone /\ RaceOverlapped
    /\ \A v \in vaccinations : v.vaccine_type = VacunaTriple
    /\ vaccinations # {}
    /\ Duplicates

\* The same, with a reminder the stored row does not generate
C19_WitnessStale ==
    /\ RaceDone /\ RaceOverlapped
    /\ \A v \in vaccinations : v.vaccine_type = VacunaTriple
    /\ vaccinations # {}
    /\ StaleReminders

(***************************************************************************)
(* C20.  No drift in the vaccine series.                                   *)
(***************************************************************************)
\* C20: every due date createReminders emits is occurredOn + k * interval
\* years for some k >= 1, counted from the original occurredOn: the same day
\* and month k * interval years later, and Feb 28 or Mar 1 only where that
\* year has no Feb 29.
C20_DueDatesCountedFromOccurredOn ==
    (run.fn = "createReminders" /\ run.outcome = "returned" /\ run.n >= 1)
    =>
        \A i \in 1..Len(run.rows) :
            \E k \in 1..30 : DueCivil(run.rows)[i] \in MonthsLater(RunStart, 12 * k * run.n)

(***************************************************************************)
(* C21.  The month of a monthly deworming reminder.                        *)
(***************************************************************************)
\* C21: for a deworming repeated every m months, the due date createNextReminder
\* generates lies in the calendar month k * m months after the month of
\* occurredOn for some k >= 1, on occurredOn's day of the month, or on the last
\* day of that month when the month is shorter.
C21_DueInMonthOfOccurrence ==
    (/\ run.fn = "createNextReminder" /\ run.outcome = "returned"
     /\ run.unit = "months" /\ run.n >= 1 /\ Len(run.rows) = 1)
    =>
        \E k \in 1..40 :
            LET ym == MonthAfter(RunStart, k * run.n)
                last_ == DaysInMonth(ym[1], ym[2])
            IN  DueCivil(run.rows)[1] =
                    <<ym[1], ym[2], IF RunStart[3] <= last_ THEN RunStart[3] ELSE last_>>

(***************************************************************************)
(* C22.  The vaccine series from the first occurrence to the horizon.      *)
(***************************************************************************)
\* The first occurrence after the backlog is collapsed, as a calendar day
NextAfterBacklog ==
    LET vaccineDateObj == parseDateString(run.date)
        first == setFullYear(vaccineDateObj, getFullYear(vaccineDateObj) + run.n)
        next == IF DateLt(vaccineDateObj, today)
                THEN VaccineBacklog(first, today, run.n).date
                ELSE first
    IN  CivilOfText(formatDateString(next))

\* The occurrences next + j * interval years that are not later than today + 10 years
OccurrencesToHorizon ==
    { c \in { YearsLater(NextAfterBacklog, j * run.n) : j \in 0..12 } :
        CivilLe(c, YearsLater(run.clock, 10)) }

VaccineRunOk == run.fn = "createReminders" /\ run.outcome = "returned" /\ run.n >= 1

\* C22: createReminders emits one vaccination reminder for every occurrence
\* next + j * interval years (j = 0, 1, 2, ...) that is not later than
\* today + 10 years, and for no other date; the list is strictly increasing.
C22_SeriesCompleteToHorizon ==
    VaccineRunOk =>
        /\ { DueCivil(run.rows)[i] : i \in 1..Len(run.rows) } = OccurrencesToHorizon
        /\ \A i \in 1..Len(run.rows) : run.rows[i].type = "vaccination"
        /\ \A i \in 1..(Len(run.rows) - 1) :
               CivilLt(DueCivil(run.rows)[i], DueCivil(run.rows)[i + 1])

\* a series of several reminders after a collapsed backlog, the last of them
\* on the day of the horizon itself
C22_Witness ==
    /\ VaccineRunOk /\ Len(run.rows) >= 3
    /\ CivilLt(YearsLater(RunStart, run.n), run.clock)
    /\ DueCivil(run.rows)[Len(run.rows)] = YearsLater(run.clock, 10)

\* a run that emits nothing, the first occurrence lying beyond the horizon
C22_WitnessNone == VaccineRunOk /\ Len(run.rows) = 0 /\ OccurrencesToHorizon = {}

(***************************************************************************)
(* C23.  A rejected delete of the old reminders.                           *)
(***************************************************************************)
UpdateHandlers == { "VaccineTab.handleUpdate", "DewormingTab.handleUpdate" }

\* The due dates the engine generates for the care event e on the clock's day
EventDueDates(e) ==
    IF "vaccine_type" \in DOMAIN e
    THEN IF e.create_reminder /\ e.reminder_frequency_years # Null
         THEN DateSet(createReminders(e.pet_id, "u1", e.vaccine_type, e.date,
                                      e.reminder_frequency_years[1], today, TRUE))
         ELSE {}
    ELSE IF e.create_reminder /\ e.reminder_frequency_type # Null
            /\ e.reminder_frequency_value # Null
         THEN DateSet(createNextReminder(e.pet_id, "u1", e.deworming_type, e.date,
                                         e.reminder_frequency_type[1],
                                         e.reminder_frequency_value[1], today, TRUE))
         ELSE {}

\* C23: when the store rejects the delete of the old reminders in handleUpdate
\* (vaccine and deworming), no reminder is removed, the handler still updates
\* the care event and inserts the reminders the updated event generates, and
\* it reports success exactly when the update and the insert succeed.
C23_DeleteErrorIsNotFatal ==
    [][(opCount' = opCount + 1 /\ last'.op \in UpdateHandlers /\ ~last'.deleteOk)
          => /\ reminders \subseteq reminders'
             /\ last'.report = "success" <=> (last'.rowOk /\ last'.insert # "threw")
             /\ last'.rowOk =>
                   \E e \in vaccinations' \cup dewormings' :
                       /\ e.id = last'.id
                       /\ last'.insert # "threw" =>
                             /\ last'.inserted \subseteq { r.id : r \in reminders' }
                             /\ { r.reminder_date : r \in { x \in reminders' :
                                                             x.id \in last'.inserted } }
                                    = EventDueDates(e)]_vars

\* the delete was rejected and the edit went through, reminders included
C23_Witness ==
    /\ last.op \in UpdateHandlers
    /\ ~last.deleteOk
    /\ last.report = "success"
    /\ last.inserted # {}

(***************************************************************************)
(* C24.  A form with the label or the date missing.                        *)
(***************************************************************************)
SubmitAndUpdateHandlers ==
    { "VaccineTab.handleSubmit", "VaccineTab.handleUpdate",
      "DewormingTab.handleSubmit", "DewormingTab.handleUpdate" }

\* C24: when the label or the date is missing, handleSubmit and handleUpdate
\* (vaccine and deworming) return before any store call: the step that reports
\* the missing information leaves care events and reminders as they were, and
\* so no care event without a label or without a date is ever stored.
C24_MissingInfoWritesNothing ==
    [][/\ (opCount' = opCount + 1 /\ last'.op \in SubmitAndUpdateHandlers
              /\ last'.report = "missing")
          => UNCHANGED <<vaccinations, dewormings, reminders, nextId>>
       /\ \A v \in vaccinations' : v.vaccine_type # <<>> /\ v.date # <<>>
       /\ \A d \in dewormings' : d.deworming_type # <<>> /\ d.date # <<>>]_vars

\* an edit with the information missing, of an event that has reminders
C24_Witness ==
    /\ last.op \in UpdateHandlers
    /\ last.report = "missing"
    /\ GeneratedFor(last.id) # {}

\* a creation with the information missing
C24_WitnessSubmit ==
    /\ last.op \in {"VaccineTab.handleSubmit", "DewormingTab.handleSubmit"}
    /\ last.report = "missing"

(***************************************************************************)
(* C25.  Reminders of the same pet that belong to something else.          *)
(***************************************************************************)
EditAndDeleteHandlers ==
    { "VaccineTab.handleUpdate", "VaccineTab.handleDelete",
      "DewormingTab.handleUpdate", "DewormingTab.handleDelete" }

\* C25: editing or deleting one care event never removes a reminder that
\* belongs to something else: the reminders generated for another vaccine or
\* deworming, and the reminders the user wrote by hand (origin 0), are all
\* still in the store afterwards.
C25_OtherRemindersKept ==
    [][(opCount' = opCount + 1 /\ last'.op \in EditAndDeleteHandlers)
          => \A r \in reminders : r.origin # last'.id => r \in reminders']_vars

(***************************************************************************)
(* C26.  Reminders of other pets and of no pet.                            *)
(***************************************************************************)
\* The pet of the care event the step was about (none for a creation that
\* failed), the event taken from the store before or after the step
PetOfStep ==
    { e.pet_id : e \in { x \in vaccinations \cup dewormings \cup vaccinations' \cup dewormings' :
                           x.id = last'.id } }

ShownPets ==
    { IF "pet_id" \in DOMAIN run.list[i] THEN run.list[i].pet_id
      ELSE (CHOOSE r \in SwitchWeights \cup vaccinations \cup dewormings :
                r.id = run.list[i].id).pet_id : i \in 1..Len(run.list) }

\* C27: once every fetch has been answered, the list shown by TimelineTab
\* (and by VaccineTab / DewormingTab) holds only records of the pet that is
\* selected, in whatever order the store answered and also when a later
\* fetch failed.
C27_ListOfSelectedPet ==
    (run.fn = "switch" /\ run.inFlight = {} /\ run.selectedPetId # "")
        => ShownPets \subseteq {run.selectedPetId}

(***************************************************************************)
(* C28.  The weight of the initial entry.                                  *)
(***************************************************************************)
InitialEntries ==
    { r \in RowsOf(allWeightRecords(run.pets, "p1", run.weightRecords)) : r.isInitial }

\* C28: the initial weight entry always carries the weight the pet had when
\* it was created, after any weight records added or deleted and after the
\* pet list is loaded again.
C28_InitialWeightIsOriginal ==
    run.fn = "weight" =>
        \A r \in InitialEntries : run.createdWith # Null /\ r.weight = run.createdWith[1]

(***************************************************************************)
(* C29.  The rows of the weight records table.                             *)
(***************************************************************************)
\* C29: every weight record WeightTab holds is shown in exactly one row of the
\* table, and the delete button of a row deletes the record that row shows,
\* also when two records have the same date.
C29_RowDeletesItsRecord ==
    run.fn = "weight" =>
        LET table == WeightTable(run.pets, "p1", run.weightRecords)
        IN  /\ \A i \in 1..Len(run.weightRecords) :
                  Cardinality({ k \in 1..Len(table) :
                                  ~table[k].isInitial
                                  /\ table[k].id = run.weightRecords[i].id }) = 1
            /\ \A k \in 1..Len(table) : ~table[k].isInitial => table[k].button = table[k].id

(***************************************************************************)
(* C30.  The loops of the engines end.                                     *)
(***************************************************************************)
\* One step of the run's recurrence, and the date k steps after occurredOn
RunStep(date) ==
    IF run.fn = "createReminders" THEN setFullYear(date, getFullYear(date) + run.n)
    ELSE DewormingStep(date, run.unit, run.n)

RECURSIVE StepsLater(_, _)
StepsLater(date, k) ==
    IF k = 0 THEN date
    ELSE CHOOSE later \in { StepsLater(stepped, k - 1) : stepped \in { RunStep(date) } } : TRUE

\* The number of steps after which the backlog loop is to stop: one, or the
\* first that reaches a date not before today when occurredOn is before today
StepsToFirst ==
    LET start == parseDateString(run.date)
        reached == { k \in 1..20 : ~DateLt(StepsLater(start, k), today) }
    IN  IF ~DateLt(start, today) THEN 1
        ELSE CHOOSE k \in reached : \A j \in reached : k <= j

\* C30: for every valid occurredOn, every today and every interval >= 1,
\* createReminders and createNextReminder terminate: the backlog loop stops
\* at the first occurrence not before today, the vaccine emission loop stops
\* once the occurrence passes today + 10 years, and at most one insert call
\* is issued per run.
C30_EnginesTerminate ==
    (RunDone /\ run.n >= 1)
    =>
        /\ run.outcome # "hang"
        /\ run.calls <= 1
        /\ Len(run.rows) > 0 =>
              /\ parseDateString(run.rows[1].reminder_date)
                     = StepsLater(parseDateString(run.date), StepsToFirst)
              /\ \A i \in 1..Len(run.rows) :
                     CivilLe(DueCivil(run.rows)[i], YearsLater(run.clock, 10))
              /\ run.fn = "createReminders" =>
                     CivilLt(YearsLater(run.clock, 10),
                             YearsLater(DueCivil(run.rows)[Len(run.rows)], run.n))

\* a vaccine run whose backlog loop took several rounds and whose series
\* has several reminders
C30_Witness ==
    /\ RunDone /\ run.n >= 1
    /\ run.fn = "createReminders"
    /\ StepsToFirst >= 3
    /\ Len(run.rows) >= 3
    /\ run.calls = 1

\* a deworming run whose backlog loop took more than ten rounds
C30_WitnessDeworming ==
    /\ RunDone /\ run.n >= 1
    /\ run.fn = "createNextReminder"
    /\ StepsToFirst > 10
    /\ Len(run.rows) = 1

====
